---- MODULE Spec2Model ----
(***************************************************************************)
(* A model of iaqualink's device-state synchronisation: the Controllers of *)
(* system.py (AqualinkPoolSystem, eXOChlorinator, zs500Heater), the        *)
(* transport and login of client.py, and the MQTT disconnect callback.     *)
(*                                                                         *)
(* One Controller is modelled; its family is chosen in Init.  The asyncio  *)
(* event loop runs the tasks of Tasks; a task is suspended exactly at the  *)
(* awaits of the code (a request, login(), response.json()) and every      *)
(* action below runs one task from one await to the next.  The MQTT        *)
(* client's thread runs MQTT_client_onOffline beside the loop.             *)
(***************************************************************************)
EXTENDS Integers, Sequences, FiniteSets, TLC

VARIABLES
    family,        \* the class from_data chose for the Controller
    online,        \* AqualinkSystem.online: "None" | "True" | "False"
    last_refresh,  \* AqualinkSystem.last_refresh (whole seconds)
    temp_unit,     \* AqualinkSystem.temp_unit
    has_spa,       \* AqualinkSystem.has_spa: "None" | "True" | "False"
    devices,       \* AqualinkSystem.devices: name -> Device object
    created,       \* heap: how many Device objects were ever built per name
    logged,        \* AqualinkClient._logged
    MQTTSystems,   \* AqualinkClient.MQTTSystems
    clock,         \* time.time(), in ticks of 1/TicksPerSec second
    task,          \* the coroutines of the event loop
    mqtt,          \* the MQTT client's callback thread
    reported,      \* Shadow.reported: the mirror of the reported document
    desired,       \* Shadow.desired: the mirror of the desired document
    inital_state,  \* Shadow.inital_state
    merge,         \* the Shadow.update call of the shadow client's callback thread
    reader         \* a thread reading a leaf of Shadow.reported

\* the fields of the Shadow object and the threads that touch them
mirror == << reported, desired, inital_state, merge, reader >>

vars == << family, online, last_refresh, temp_unit, has_spa, devices, created,
           logged, MQTTSystems, clock, task, mqtt, mirror >>

ctrl == << online, last_refresh, temp_unit, has_spa, devices, created >>

----------------------------------------------------------------------------
(* Bounds and program constants *)

MIN_SECS_TO_REFRESH == 15
\* ticks of the clock per second: time.time() is a float, the code reads int() of it
TicksPerSec == 2
\* seconds the clock runs past its start
MaxSecs == 29
\* entries of a home or devices screen after its header elements
MaxEntries == 1

Tasks == {"t1", "t2"}
\* the callers of Spec: one caller, whose calls follow one another
Callers == {"t1"}
Self == "ABCDEFG"

StartClock == MIN_SECS_TO_REFRESH * TicksPerSec
MaxClock == StartClock + MaxSecs * TicksPerSec

\* the clock advances by one tick more than MIN_SECS_TO_REFRESH - 1 seconds, or by
\* MIN_SECS_TO_REFRESH seconds: two readings of int(time.time()) are then
\* MIN_SECS_TO_REFRESH - 1, MIN_SECS_TO_REFRESH or more whole seconds apart
TickSteps == {(MIN_SECS_TO_REFRESH - 1) * TicksPerSec + 1, MIN_SECS_TO_REFRESH * TicksPerSec}

\* int(time.time())
IntTime == clock \div TicksPerSec

----------------------------------------------------------------------------
(* JSON values.  A scalar x is the one-key mapping SKey :> x, so that every *)
(* attribute value is a function and scalars and mappings compare.          *)

SKey == "$"
Scalar(x) == [k \in {SKey} |-> x]
IsMapping(v) == SKey \notin DOMAIN v
EmptyMap == [k \in {} |-> ""]
\* dict.update({k: v}) / d[k] = v
Put(d, k, v) == [x \in (DOMAIN d) \cup {k} |-> IF x = k THEN v ELSE d[x]]
\* d.update(u)
Update(d, u) == [x \in (DOMAIN d) \cup (DOMAIN u) |-> IF x \in DOMAIN u THEN u[x] ELSE d[x]]
\* d.pop(k, None)
Pop(d, k) == [x \in (DOMAIN d) \ {k} |-> d[x]]

SeqsUpTo(S, n) == UNION { [1..m -> S] : m \in 0..n }

----------------------------------------------------------------------------
(* Payloads.  A home screen is its status marker, its temp_scale and the    *)
(* single-key objects after the four header elements; a devices screen is   *)
(* its status marker and the {aux: [{k: v}, ...]} objects after the three   *)
(* header elements; a shadow document is state.reported.equipment.<id> and, *)
(* for the chlorinator, state.reported.heating.                             *)

Families == {"iaqua", "exo", "zs500"}
IsPool == family = "iaqua"
IsShadow == family \in {"exo", "zs500"}

HomeNames == {"spa_set_point"}
AuxNames == {"aux_1"}
StateValues == {"0", "1"}

\* aux.replace("aux_", "")
AuxId(aux) == CASE aux = "aux_1" -> "1"
                [] aux = "aux_B1" -> "B1"
                [] OTHER -> aux

HomePayloads ==
    [ status : {"Online", "Offline"}, temp_scale : {"F"},
      entries : SeqsUpTo(HomeNames \X StateValues, MaxEntries) ]

DevicesPayloads ==
    [ status : {"Online", "Offline"},
      entries : SeqsUpTo(AuxNames \X SeqsUpTo({"state"} \X StateValues, 1), MaxEntries) ]

ShadowPayloads ==
    { [ equipment |-> [n \in {"low"} |-> Scalar(v)],
        heating |-> [k \in {"sp"} |-> Scalar(w)] ] : v \in StateValues, w \in {"32"} }

\* The payloads of SpecRegistry: two names that both screens can carry, repeated
\* entries, two attributes per aux, and shadow fragments that are scalars,
\* mappings with and without a state entry and with a name entry of their
\* own, and the excluded fragments.
RichHomeEntries == {<<"spa_set_point", "72">>, <<"aux_1", "1">>, <<"aux_1", "72">>}

RichHomePayloads ==
    [ status : {"Online", "Offline"}, temp_scale : {"F"},
      entries : SeqsUpTo(RichHomeEntries, MaxEntries + 1) ]

\* the attribute lists of an aux entry: none, one, two, in either order
RichAuxAttrs == {<< >>, << <<"state", "0">> >>, << <<"label", "1">> >>,
                 << <<"state", "1">>, <<"label", "0">> >>,
                 << <<"label", "0">>, <<"state", "0">> >>}

RichDevicesPayloads ==
    [ status : {"Online", "Offline"},
      entries : SeqsUpTo(AuxNames \X RichAuxAttrs, MaxEntries) ]

FragmentsOf(n) ==
    CASE n = "low" -> {Scalar(v) : v \in StateValues}
      [] n = "boost" -> {Scalar("0")}
      [] n = "swc" -> {Scalar("80")}
      [] n = "aux_1" -> {[k \in {"state"} |-> "0"], [k \in {"state", "mode"} |-> "1"],
                         [k \in {"mode"} |-> "3"], [k \in {"name"} |-> "Aux 1"]}
      [] OTHER -> {[k \in {"min"} |-> "600"]}

EquipmentDocs ==
    UNION { {f \in [S -> UNION {FragmentsOf(n) : n \in S}] : \A n \in S : f[n] \in FragmentsOf(n)} :
            S \in SUBSET {"low", "boost", "swc", "aux_1", "vsp_speed", "debug"} }

HeatingDocs == {[k \in {"sp"} |-> Scalar("32")],
                [k \in {"sp", "enabled"} |-> Scalar("1")]}

RichShadowPayloads == [equipment : EquipmentDocs, heating : HeatingDocs]

----------------------------------------------------------------------------
(* AqualinkDevice.from_data (device.py): the Device Classifier.  A Device   *)
(* object is its identity (obj: the count of objects built under its name), *)
(* its variant and its attribute dict, .data.                               *)

Classify_ByShape(name, attrs) ==
    CASE name = "heating" -> "eXOThermostat"
      [] name \in {"aux_1", "aux_B1"} ->
            IF IsShadow THEN "eXOAuxToggle" ELSE "AqualinkAuxToggle"
      [] name = "spa_set_point" -> "AqualinkThermostat"
      [] OTHER -> "AqualinkSensor"
Classify(name, attrs) ==
    CASE name = "low" -> "eXOLow"
      [] name = "boost" -> "eXOBoost"
      [] name = "production" -> "eXOProduction"
      [] name = "heating" -> "eXOThermostat"
      [] name \in {"aux_1", "aux_B1"} ->
            IF IsShadow THEN "eXOAuxToggle" ELSE "AqualinkAuxToggle"
      [] name = "spa_set_point" -> "AqualinkThermostat"
      [] OTHER -> "AqualinkSensor"

Count(cr, k) == IF k \in DOMAIN cr THEN cr[k] ELSE 0

\* AqualinkDevice.from_data(self, v) under Registry key k: the classifier sees
\* the bag alone, and so the bag's own "name"
from_data(k, attrs, cr) ==
    [obj |-> Count(cr, k) + 1, cls |-> Classify(attrs["name"][SKey], attrs), data |-> attrs]

----------------------------------------------------------------------------
(* The parsers of system.py, as functions of the payload and the Registry.  *)

\* for dk, dv in v.items(): self.devices[k].data[dk] = dv
MergeInto(device, v) == [device EXCEPT !.data = Update(@, v)]

UpsertOne_Replace(devs, cr, k, v) == from_data(k, v, cr)
\* if k in self.devices: merge else: self.devices[k] = AqualinkDevice.from_data(self, v)
UpsertOne(devs, cr, k, v) ==
    IF k \in DOMAIN devs THEN MergeInto(devs[k], v) ELSE from_data(k, v, cr)

Upsert_OnlyPayload(devs, cr, flat) ==
    [k \in DOMAIN flat |-> UpsertOne(devs, cr, k, flat[k])]
\* for k, v in devices.items(): upsert
Upsert(devs, cr, flat) ==
    [k \in (DOMAIN devs) \cup (DOMAIN flat) |->
        IF k \in DOMAIN flat THEN UpsertOne(devs, cr, k, flat[k]) ELSE devs[k]]

\* the heap after the upserts: one more object under every name that was new
CreatedAfter(devs, cr, flat) ==
    [k \in (DOMAIN cr) \cup ((DOMAIN flat) \ (DOMAIN devs)) |->
        IF k \in (DOMAIN flat) \ (DOMAIN devs) THEN Count(cr, k) + 1 ELSE cr[k]]

\* attrs = {"name": name, "state": state}
HomeAttrs(name, state) == ("name" :> Scalar(name)) @@ ("state" :> Scalar(state))

\* for x in data["home_screen"][4:]: devices.update({name: attrs})
RECURSIVE HomeFlat(_)
HomeFlat(entries) ==
    IF entries = <<>> THEN EmptyMap
    ELSE LET n == Len(entries)
             x == entries[n]
         IN  Put(HomeFlat(SubSeq(entries, 1, n - 1)), x[1], HomeAttrs(x[1], x[2]))

RECURSIVE AuxAttrs_WholeName(_, _)
AuxAttrs_WholeName(aux, ys) ==
    IF ys = <<>> THEN ("aux" :> Scalar(aux)) @@ ("name" :> Scalar(aux))
    ELSE LET n == Len(ys)
         IN  Put(AuxAttrs_WholeName(aux, SubSeq(ys, 1, n - 1)), ys[n][1], Scalar(ys[n][2]))
\* for y in list(x.values())[0]: attrs.update(y)
RECURSIVE AuxAttrs(_, _)
AuxAttrs(aux, ys) ==
    IF ys = <<>> THEN ("aux" :> Scalar(AuxId(aux))) @@ ("name" :> Scalar(aux))
    ELSE LET n == Len(ys)
         IN  Put(AuxAttrs(aux, SubSeq(ys, 1, n - 1)), ys[n][1], Scalar(ys[n][2]))

\* for x in data["devices_screen"][3:]: devices.update({aux: attrs})
RECURSIVE DevicesFlat(_)
DevicesFlat(entries) ==
    IF entries = <<>> THEN EmptyMap
    ELSE LET n == Len(entries)
             x == entries[n]
         IN  Put(DevicesFlat(SubSeq(entries, 1, n - 1)), x[1], AuxAttrs(x[1], x[2]))

ShadowAttrs_NoItems(name, state) == ("name" :> Scalar(name)) @@ ("state" :> state)
\* attrs = {"name": name, "state": state}; try: attrs.update(state) except: pass
ShadowAttrs(name, state) ==
    LET base == ("name" :> Scalar(name)) @@ ("state" :> state)
    IN  IF IsMapping(state)
        THEN Update(base, [k \in DOMAIN state |-> Scalar(state[k])])
        ELSE base

EquipmentFlat_KeepsAll(equipment, excluded) ==
    [n \in DOMAIN equipment |-> ShadowAttrs(n, equipment[n])]
\* the flattened equipment block, less the excluded fragment
EquipmentFlat(equipment, excluded) ==
    Pop([n \in DOMAIN equipment |-> ShadowAttrs(n, equipment[n])], excluded)

\* attrs = {"name": "heating"}; attrs.update(data["state"]["reported"]["heating"])
HeatingAttrs(heating) == Update("name" :> Scalar("heating"), heating)

eXOFlat(p) == Put(EquipmentFlat(p.equipment, "vsp_speed"), "heating", HeatingAttrs(p.heating))
zs500Flat(p) == EquipmentFlat(p.equipment, "debug")
ShadowFlat(p) == IF family = "exo" THEN eXOFlat(p) ELSE zs500Flat(p)

IsOffline_HomeOnly(p) == p.status = "Offline" /\ "temp_scale" \in DOMAIN p
\* data["home_screen"][0]["status"] == "Offline"
IsOffline(p) == p.status = "Offline"

HasSpaOf_Sticky(flat) ==
    IF "spa_set_point" \in DOMAIN flat \/ has_spa = "True" THEN "True" ELSE "False"
\* if "spa_set_point" in devices: self.has_spa = True else: self.has_spa = False
HasSpaOf(flat) == IF "spa_set_point" \in DOMAIN flat THEN "True" ELSE "False"

\* what AqualinkDevice.from_data(self, v) can read of the Controller in the loop
\* of _parse_home_response: temp_unit was assigned before the loop, has_spa is
\* assigned after it and still holds what it held when the parse began
TempUnitAtClassify(p) == p.temp_scale
HasSpaAtClassify == has_spa

ParseHome_LeavesSpa(p) ==
    /\ temp_unit' = p.temp_scale
    /\ devices' = Upsert(devices, created, HomeFlat(p.entries))
    /\ created' = CreatedAfter(devices, created, HomeFlat(p.entries))
    /\ has_spa' = has_spa
\* _parse_home_response past the offline check
ParseHome(p) ==
    /\ temp_unit' = p.temp_scale
    /\ devices' = Upsert(devices, created, HomeFlat(p.entries))
    /\ created' = CreatedAfter(devices, created, HomeFlat(p.entries))
    /\ has_spa' = HasSpaOf(HomeFlat(p.entries))

\* _parse_devices_response past the offline check
ParseDevices(p) ==
    /\ devices' = Upsert(devices, created, DevicesFlat(p.entries))
    /\ created' = CreatedAfter(devices, created, DevicesFlat(p.entries))
    /\ UNCHANGED << temp_unit, has_spa >>

\* _parse_shadow_response (it has no offline check)
ParseShadow(p) ==
    /\ devices' = Upsert(devices, created, ShadowFlat(p))
    /\ created' = CreatedAfter(devices, created, ShadowFlat(p))
    /\ UNCHANGED << temp_unit, has_spa >>

----------------------------------------------------------------------------
(* The transport: AqualinkClient._send_request.  A reply is what the        *)
(* aiohttp session does with the request: a response with a status, or an   *)
(* exception of its own (connection error, timeout).                        *)

Replies == [kind : {"response"}, status : {200, 401, 500}]
             \cup {[kind |-> "raise", status |-> 0]}

Unauthorized == "AqualinkServiceUnauthorizedException"
ServiceException == "AqualinkServiceException"
OfflineException == "AqualinkSystemOfflineException"
ClientError == "aiohttp.ClientError"

\* what _send_request returns ("ok": the response) or raises
send_request(reply) ==
    CASE reply.kind = "raise" -> ClientError
      [] reply.kind = "response" /\ reply.status = 401 -> Unauthorized
      [] reply.kind = "response" /\ reply.status # 200 -> ServiceException
      [] OTHER -> "ok"

LoggedAfterRequest_AnyError(reply) ==
    IF reply.kind = "response" /\ reply.status # 200 THEN FALSE ELSE logged
\* if r.status == 401: self._logged = False
LoggedAfterRequest(reply) ==
    IF reply.kind = "response" /\ reply.status = 401 THEN FALSE ELSE logged

\* login(): the login request, then self._logged = True
LoggedAfterLogin(reply) ==
    IF send_request(reply) = "ok" THEN TRUE ELSE LoggedAfterRequest(reply)

\* AqualinkClient.send_shadow_request / send_shadow_desired
send_shadow_request(reply) == send_request(reply)

\* exception.py: what "except AqualinkServiceException" catches
IsServiceException(e) == e \in {ServiceException, Unauthorized}

----------------------------------------------------------------------------
(* Controller.update(): the assignments of the code, one definition each.   *)

Throttled_OffByOne(now, last) == now - last < MIN_SECS_TO_REFRESH - 1
\* delta = now - self.last_refresh; if delta < MIN_SECS_TO_REFRESH: return
Throttled(now, last) == now - last < MIN_SECS_TO_REFRESH

OnlineOnServiceException_False == "False"
\* except AqualinkServiceException: self.online = None
OnlineOnServiceException == "None"
OnlineOnOffline_Unknown == "None"
\* except AqualinkSystemOfflineException: self.online = False
OnlineOnOffline == "False"
OnlineOnSuccess_Kept == online
\* self.online = True
OnlineOnSuccess == "True"
RefreshStamp_Stale == last_refresh
\* self.last_refresh = int(time.time())
RefreshStamp == IntTime

----------------------------------------------------------------------------
(* Tasks.  pc is the await a coroutine is suspended at; op the method the   *)
(* caller invoked; now the local of update(); data the local of the parser  *)
(* that ran last; requests and logins count the requests and login() calls  *)
(* the current call has issued; result is what the call returned ("ok") or  *)
(* raised, and returned the dict a call of get_systems returned.            *)

IdleTask == [pc |-> "idle", op |-> "none", now |-> 0, data |-> EmptyMap,
             requests |-> 0, logins |-> 0, result |-> "none", returned |-> EmptyMap]

\* the caller holds no call in flight: it has made none, or has the result of its last
Ready(t) == task[t].pc \in {"idle", "done"}

HomeSetters == {"set_pump", "set_heater", "set_temps"}
DevicesSetters == {"set_aux", "set_light"}
PoolSetters == HomeSetters \cup DevicesSetters
ShadowSetters == {"set_heater", "set_temps"}

Finish(t, res) == task' = [task EXCEPT ![t].pc = "done", ![t].result = res]
Goto(t, pc) == task' = [task EXCEPT ![t].pc = pc]
Request(t, pc) == task' = [task EXCEPT ![t].pc = pc, ![t].requests = @ + 1]
\* data = await response.json(), and the parser's return (res "") or exception
Parsed(t, p, pc, res) ==
    task' = [task EXCEPT ![t].data = p, ![t].pc = pc,
                         ![t].result = IF res = "" THEN @ ELSE res]

\* the body of update() up to its first await
UpdateEntry(t, op) ==
    /\ IF Throttled(IntTime, last_refresh)
       THEN task' = [task EXCEPT ![t] = [IdleTask EXCEPT !.pc = "done", !.op = op,
                                          !.now = IntTime, !.result = "ok"]]
       ELSE task' = [task EXCEPT ![t] = [IdleTask EXCEPT
                        !.pc = IF IsPool THEN "home_req" ELSE "shadow_req",
                        !.op = op, !.now = IntTime, !.requests = 1]]
    /\ UNCHANGED << mirror, family, ctrl, logged, MQTTSystems, clock, mqtt >>

\* await system.update()
update(t) ==
    /\ Ready(t)
    /\ UpdateEntry(t, "update")

get_devices_AlwaysUpdates(t) ==
    /\ Ready(t)
    /\ UpdateEntry(t, "get_devices")
\* await system.get_devices()
get_devices(t) ==
    /\ Ready(t)
    /\ IF DOMAIN devices # {}
       THEN /\ task' = [task EXCEPT ![t] = [IdleTask EXCEPT !.pc = "done",
                                !.op = "get_devices", !.result = "ok"]]
            /\ UNCHANGED << mirror, family, ctrl, logged, MQTTSystems, clock, mqtt >>
       ELSE UpdateEntry(t, "get_devices")

FetchFailed_Stamps(t, e) ==
    /\ Finish(t, e)
    /\ online' = IF IsServiceException(e) THEN OnlineOnServiceException ELSE online
    /\ last_refresh' = IntTime
    /\ UNCHANGED << temp_unit, has_spa, devices, created >>
\* a fetch of update() failed with e: the except clauses of update()
FetchFailed(t, e) ==
    /\ Finish(t, e)
    /\ online' = IF IsServiceException(e) THEN OnlineOnServiceException ELSE online
    /\ UNCHANGED << last_refresh, temp_unit, has_spa, devices, created >>

HomeReply_ParsesFirst(t, reply) ==
    /\ task[t].pc = "home_req"
    /\ logged' = LoggedAfterRequest(reply)
    /\ IF send_request(reply) = "ok"
       THEN Goto(t, "home_json") /\ UNCHANGED ctrl
       ELSE FetchFailed(t, send_request(reply))
    /\ UNCHANGED << mirror, family, MQTTSystems, clock, mqtt >>
\* r1 = await self.aqualink.send_home_screen_request(self.serial)
HomeReply(t, reply) ==
    /\ task[t].pc = "home_req"
    /\ logged' = LoggedAfterRequest(reply)
    /\ IF send_request(reply) = "ok"
       THEN Request(t, "devices_req") /\ UNCHANGED ctrl
       ELSE FetchFailed(t, send_request(reply))
    /\ UNCHANGED << mirror, family, MQTTSystems, clock, mqtt >>

\* r2 = await self.aqualink.send_devices_screen_request(self.serial)
DevicesReply(t, reply) ==
    /\ task[t].pc = "devices_req"
    /\ logged' = LoggedAfterRequest(reply)
    /\ IF send_request(reply) = "ok"
       THEN Goto(t, "home_json") /\ UNCHANGED ctrl
       ELSE FetchFailed(t, send_request(reply))
    /\ UNCHANGED << mirror, family, MQTTSystems, clock, mqtt >>

\* a parse of update() raised AqualinkSystemOfflineException
ParseOffline(t, p) ==
    /\ Parsed(t, p, "done", OfflineException)
    /\ online' = OnlineOnOffline
    /\ UNCHANGED << last_refresh, temp_unit, has_spa, devices, created >>

HomeJson_OfflineGoesOn(t, p) ==
    /\ task[t].pc = "home_json"
    /\ IF IsOffline(p)
       THEN /\ Parsed(t, p, "devices_json", "")
            /\ online' = OnlineOnOffline
            /\ UNCHANGED << last_refresh, temp_unit, has_spa, devices, created >>
       ELSE /\ ParseHome(p)
            /\ Parsed(t, p, "devices_json", "")
            /\ UNCHANGED << online, last_refresh >>
    /\ UNCHANGED << mirror, family, logged, MQTTSystems, clock, mqtt >>
\* await self._parse_home_response(r1), from its await response.json()
HomeJson(t, p) ==
    /\ task[t].pc = "home_json"
    /\ IF IsOffline(p)
       THEN ParseOffline(t, p)
       ELSE /\ ParseHome(p)
            /\ Parsed(t, p, "devices_json", "")
            /\ UNCHANGED << online, last_refresh >>
    /\ UNCHANGED << mirror, family, logged, MQTTSystems, clock, mqtt >>

\* the end of a successful cycle
CycleDone(t, p) ==
    /\ Parsed(t, p, "done", "ok")
    /\ online' = OnlineOnSuccess
    /\ last_refresh' = RefreshStamp

\* await self._parse_devices_response(r2), then the end of update()
DevicesJson(t, p) ==
    /\ task[t].pc = "devices_json"
    /\ IF IsOffline(p)
       THEN ParseOffline(t, p)
       ELSE ParseDevices(p) /\ CycleDone(t, p)
    /\ UNCHANGED << mirror, family, logged, MQTTSystems, clock, mqtt >>

\* r1 = await self.aqualink.send_shadow_request(self.serial)
ShadowReply(t, reply) ==
    /\ task[t].pc = "shadow_req"
    /\ logged' = LoggedAfterRequest(reply)
    /\ CASE send_shadow_request(reply) = "ok" ->
                Goto(t, "shadow_json") /\ UNCHANGED ctrl
         [] send_shadow_request(reply) = Unauthorized ->
                /\ task' = [task EXCEPT ![t].pc = "login", ![t].logins = @ + 1]
                /\ UNCHANGED ctrl
         [] OTHER -> FetchFailed(t, send_shadow_request(reply))
    /\ UNCHANGED << mirror, family, MQTTSystems, clock, mqtt >>

\* await self.aqualink.login(), then the retry is sent
LoginReply(t, reply) ==
    /\ task[t].pc = "login"
    /\ logged' = LoggedAfterLogin(reply)
    /\ IF send_request(reply) = "ok"
       THEN Request(t, "shadow_retry") /\ UNCHANGED ctrl
       ELSE FetchFailed(t, send_request(reply))
    /\ UNCHANGED << mirror, family, MQTTSystems, clock, mqtt >>

\* r1 = await self.aqualink.send_shadow_request(self.serial), the retry
ShadowRetryReply(t, reply) ==
    /\ task[t].pc = "shadow_retry"
    /\ logged' = LoggedAfterRequest(reply)
    /\ IF send_shadow_request(reply) = "ok"
       THEN Goto(t, "shadow_json") /\ UNCHANGED ctrl
       ELSE FetchFailed(t, send_shadow_request(reply))
    /\ UNCHANGED << mirror, family, MQTTSystems, clock, mqtt >>

\* await self._parse_shadow_response(r1), then the end of update()
ShadowJson(t, p) ==
    /\ task[t].pc = "shadow_json"
    /\ ParseShadow(p)
    /\ CycleDone(t, p)
    /\ UNCHANGED << mirror, family, logged, MQTTSystems, clock, mqtt >>

----------------------------------------------------------------------------
(* The setters.  The pool family sends a session command and parses the     *)
(* response as a home or a devices screen; the shadow families publish a    *)
(* desired document.  No setter has a try block.                            *)

set_command_Throttled(t, op) ==
    /\ Ready(t)
    /\ IsPool
    /\ IF Throttled(IntTime, last_refresh)
       THEN task' = [task EXCEPT ![t] = [IdleTask EXCEPT !.pc = "done", !.op = op,
                                          !.result = "ok"]]
       ELSE task' = [task EXCEPT ![t] = [IdleTask EXCEPT !.pc = "set_req", !.op = op,
                                          !.requests = 1]]
    /\ UNCHANGED << mirror, family, ctrl, logged, MQTTSystems, clock, mqtt >>
\* r = await self.aqualink._send_session_request(self.serial, command)
set_command(t, op) ==
    /\ Ready(t)
    /\ IsPool
    /\ task' = [task EXCEPT ![t] = [IdleTask EXCEPT !.pc = "set_req", !.op = op,
                                     !.requests = 1]]
    /\ UNCHANGED << mirror, family, ctrl, logged, MQTTSystems, clock, mqtt >>

SetReply(t, reply) ==
    /\ task[t].pc = "set_req"
    /\ logged' = LoggedAfterRequest(reply)
    /\ IF send_request(reply) = "ok"
       THEN Goto(t, "set_json")
       ELSE Finish(t, send_request(reply))
    /\ UNCHANGED << mirror, family, ctrl, MQTTSystems, clock, mqtt >>

\* set_pump, set_heater, set_temps: await self._parse_home_response(r)
SetHomeJson(t, p) ==
    /\ task[t].pc = "set_json"
    /\ task[t].op \in HomeSetters
    /\ IF IsOffline(p)
       THEN /\ Parsed(t, p, "done", OfflineException)
            /\ UNCHANGED << temp_unit, has_spa, devices, created >>
       ELSE ParseHome(p) /\ Parsed(t, p, "done", "ok")
    /\ UNCHANGED << mirror, family, online, last_refresh, logged, MQTTSystems, clock, mqtt >>

\* set_aux, set_light: await self._parse_devices_response(r)
SetDevicesJson(t, p) ==
    /\ task[t].pc = "set_json"
    /\ task[t].op \in DevicesSetters
    /\ IF IsOffline(p)
       THEN /\ Parsed(t, p, "done", OfflineException)
            /\ UNCHANGED << temp_unit, has_spa, devices, created >>
       ELSE ParseDevices(p) /\ Parsed(t, p, "done", "ok")
    /\ UNCHANGED << mirror, family, online, last_refresh, logged, MQTTSystems, clock, mqtt >>

\* the key path of the desired document a setter sends (set_aux on aux_1); the
\* value at its end is the caller's argument
DesiredDoc(op) ==
    IF family = "exo"
    THEN CASE op = "set_heater" -> <<"heating", "enabled">>
           [] op = "set_temps" -> <<"heating", "sp">>
           [] op = "set_aux" -> <<"equipment", "swc_0", "aux_1", "state">>
           [] op = "set_production" -> <<"equipment", "swc_0", "production">>
           [] op = "set_boost" -> <<"equipment", "swc_0", "boost">>
           [] OTHER -> <<"equipment", "swc_0", "low">>
    ELSE CASE op = "set_heater" -> <<"equipment", "hp_0", "state">>
           [] OTHER -> <<"equipment", "hp_0", "tsp">>

\* r = await self.aqualink.send_shadow_desired(self.serial, {...}); data holds
\* the document sent
set_desired(t, op) ==
    /\ Ready(t)
    /\ IsShadow
    /\ task' = [task EXCEPT ![t] = [IdleTask EXCEPT !.pc = "desired_req", !.op = op,
                                     !.requests = 1,
                                     !.data = [desired |-> DesiredDoc(op)]]]
    /\ UNCHANGED << mirror, family, ctrl, logged, MQTTSystems, clock, mqtt >>

DesiredReply_Stamps(t, reply) ==
    /\ task[t].pc = "desired_req"
    /\ logged' = LoggedAfterRequest(reply)
    /\ Finish(t, send_shadow_request(reply))
    /\ online' = IF send_shadow_request(reply) = "ok" THEN OnlineOnSuccess ELSE online
    /\ UNCHANGED << last_refresh, temp_unit, has_spa, devices, created >>
    /\ UNCHANGED << mirror, family, MQTTSystems, clock, mqtt >>
\* the reply to the desired document; r.raise_for_status()
DesiredReply(t, reply) ==
    /\ task[t].pc = "desired_req"
    /\ logged' = LoggedAfterRequest(reply)
    /\ Finish(t, send_shadow_request(reply))
    /\ UNCHANGED << mirror, family, ctrl, MQTTSystems, clock, mqtt >>

\* the set_* methods of the three classes, and those the Controller's class has
AllSetters == {"set_pump", "set_heater", "set_temps", "set_aux", "set_light",
               "set_production", "set_boost", "set_low"}
Implemented ==
    CASE family = "iaqua" -> PoolSetters
      [] family = "exo" -> {"set_heater", "set_temps", "set_aux", "set_production",
                            "set_boost", "set_low"}
      [] OTHER -> ShadowSetters

AttributeError == "AttributeError"
\* system.<op>(...) where the class has no method <op>: the attribute lookup
\* raises before anything is sent
set_missing(t, op) ==
    /\ Ready(t)
    /\ op \notin Implemented
    /\ task' = [task EXCEPT ![t] = [IdleTask EXCEPT !.pc = "done", !.op = op,
                                     !.result = AttributeError]]
    /\ UNCHANGED << mirror, family, ctrl, logged, MQTTSystems, clock, mqtt >>

----------------------------------------------------------------------------
(* Discovery: AqualinkClient.get_systems and AqualinkSystem.from_data.  The *)
(* systems response is a list of entries, each a serial number and a type   *)
(* tag.                                                                     *)

\* entries of a systems response
MaxSystems == 2
Serials == {"ABCDEFG", "HIJKLMN"}
TypeTags == {"iaqua", "exo", "zs500", "foo"}
SystemsPayloads == SeqsUpTo([serial_number : Serials, device_type : TypeTags], MaxSystems)

SystemClass_AllPool(tag) ==
    IF tag \in {"iaqua", "exo", "zs500"} THEN "AqualinkPoolSystem" ELSE "None"
\* SYSTEM_TYPES.get(data["device_type"])
SystemClass(tag) ==
    CASE tag = "iaqua" -> "AqualinkPoolSystem"
      [] tag = "exo" -> "eXOChlorinator"
      [] tag = "zs500" -> "zs500Heater"
      [] OTHER -> "None"

\* AqualinkSystem.from_data(aqualink, data): None, or class_(aqualink, data)
System_from_data(x) == [cls |-> SystemClass(x.device_type), data |-> x]

\* systems = [AqualinkSystem.from_data(self, x) for x in data]
Systems(data) == [i \in 1..Len(data) |-> System_from_data(data[i])]

RECURSIVE SystemsDict_KeepsNone(_)
SystemsDict_KeepsNone(systems) ==
    IF systems = << >> THEN EmptyMap
    ELSE LET n == Len(systems)
         IN  Put(SystemsDict_KeepsNone(SubSeq(systems, 1, n - 1)),
                 systems[n].data.serial_number, systems[n])
\* {x.serial: x for x in systems if x is not None}
RECURSIVE SystemsDict(_)
SystemsDict(systems) ==
    IF systems = << >> THEN EmptyMap
    ELSE LET n == Len(systems)
             rest == SystemsDict(SubSeq(systems, 1, n - 1))
         IN  IF systems[n].cls = "None" THEN rest
             ELSE Put(rest, systems[n].data.serial_number, systems[n])

DiscoveryReplies == Replies \cup {[kind |-> "response", status |-> 404]}

\* except AqualinkServiceException as e: if "404" in str(e): raise
\* AqualinkServiceUnauthorizedException from e; raise
SystemsError(reply) ==
    IF send_request(reply) = ServiceException /\ reply.status = 404
    THEN Unauthorized
    ELSE send_request(reply)

\* r = await self._send_systems_request()
get_systems(t) ==
    /\ Ready(t)
    /\ task' = [task EXCEPT ![t] = [IdleTask EXCEPT !.pc = "systems_req",
                                     !.op = "get_systems", !.requests = 1]]
    /\ UNCHANGED << mirror, family, ctrl, logged, MQTTSystems, clock, mqtt >>

SystemsReply(t, reply) ==
    /\ task[t].pc = "systems_req"
    /\ logged' = LoggedAfterRequest(reply)
    /\ IF send_request(reply) = "ok"
       THEN Goto(t, "systems_json")
       ELSE Finish(t, SystemsError(reply))
    /\ UNCHANGED << mirror, family, ctrl, MQTTSystems, clock, mqtt >>

\* data = await r.json(); the list, the dict, return
SystemsJson(t, data) ==
    /\ task[t].pc = "systems_json"
    /\ task' = [task EXCEPT ![t].pc = "done", ![t].data = data, ![t].result = "ok",
                            ![t].returned = SystemsDict(Systems(data))]
    /\ UNCHANGED << mirror, family, ctrl, logged, MQTTSystems, clock, mqtt >>

----------------------------------------------------------------------------
(* The MQTT client (client.py).                                             *)

\* init_MQTT_client(system): self.MQTTSystems.add(system)
init_MQTT_client ==
    /\ Self \notin MQTTSystems
    /\ MQTTSystems' = MQTTSystems \cup {Self}
    /\ UNCHANGED << mirror, family, ctrl, logged, clock, task, mqtt >>

OnlineOnDisconnect_Unknown == "None"
\* for MQTTSystem in self.MQTTSystems: MQTTSystem.online = False
OnlineOnDisconnect == "False"

\* MQTT_client_onOffline, on the MQTT client's thread, up to the .result()
\* of reinit_MQTT_client
MQTT_client_onOffline ==
    /\ mqtt = "idle"
    /\ MQTTSystems # {}
    /\ online' = IF Self \in MQTTSystems THEN OnlineOnDisconnect ELSE online
    /\ mqtt' = "login"
    /\ UNCHANGED << mirror, family, last_refresh, temp_unit, has_spa, devices, created,
                    logged, MQTTSystems, clock, task >>

\* the login() that reinit_MQTT_client ran on the event loop ends
MqttLoginReply(reply) ==
    /\ mqtt = "login"
    /\ logged' = LoggedAfterLogin(reply)
    /\ mqtt' = "idle"
    /\ UNCHANGED << mirror, family, ctrl, MQTTSystems, clock, task >>

\* time passes: d ticks
Tick(d) ==
    /\ clock + d <= MaxClock
    /\ clock' = clock + d
    /\ UNCHANGED << mirror, family, ctrl, logged, MQTTSystems, task, mqtt >>

----------------------------------------------------------------------------
(* shadow.py: the Shadow mirror.  A tree maps a key to a subtree or to a    *)
(* LockedData leaf, the record of its value, version and metadata; an      *)
(* update document maps a key to a scalar or to a mapping.  None is the     *)
(* scalar "None".                                                           *)

\* keys of a shadow document, at every level
Keys == {"a", "b"}
LeafValues == {"1", "2"}
None == Scalar("None")

LeafFields == {"value", "version", "metadata"}
\* LockedData(): value, metadata and version are None
LockedData == [f \in LeafFields |-> None]
IsLeaf(n) == DOMAIN n = LeafFields
set_value_VersionOfOldMetadata(leaf, value, version, metadata) ==
    [f \in LeafFields |-> CASE f = "value" -> value
                            [] f = "version" -> leaf["metadata"]
                            [] OTHER -> metadata]
\* LockedData.set_value(value, version, metadata)
set_value(leaf, value, version, metadata) ==
    [f \in LeafFields |-> CASE f = "value" -> value
                            [] f = "version" -> version
                            [] OTHER -> metadata]

\* metadata.get(k, {}) if metadata is not None else None
MetadataOf(metadata, k) ==
    IF metadata = None THEN None
    ELSE IF k \in DOMAIN metadata THEN metadata[k] ELSE EmptyMap

\* key paths of a tree or a document, and the node at a path
Paths == {<<k>> : k \in Keys} \cup {<<k, j>> : k \in Keys, j \in Keys}
Missing == [k \in {"?"} |-> None]
IsContainer(n) == ~IsLeaf(n) /\ IsMapping(n) /\ n # Missing
IsScalar(n) == SKey \in DOMAIN n
At(t, p) ==
    IF p[1] \notin DOMAIN t THEN Missing
    ELSE IF Len(p) = 1 THEN t[p[1]]
    ELSE IF IsContainer(t[p[1]]) /\ p[2] \in DOMAIN t[p[1]] THEN t[p[1]][p[2]]
    ELSE Missing

\* the orders in which u.items() can yield the keys of a document
KeyOrders == {<<"a", "b">>, <<"b", "a">>}

\* Shadow.update(d, u, version, metadata): the tree it leaves in d, and whether
\* it raised.  A call on a LockedData (d.get(k) was a leaf and v a mapping) raises
\* at the first key of v; set_value on a subtree (d[k] a dict and v a scalar)
\* raises; a raise ends the loops of every enclosing call, keeping what the
\* calls had already written into the dicts of the tree.
RECURSIVE UpdateFrom(_, _, _, _, _, _)
RECURSIVE UpdateKey(_, _, _, _, _, _)
Shadow_update(d, u, version, metadata, order) ==
    UpdateFrom([tree |-> d, raised |-> FALSE], u, version, metadata, order, 1)

UpdateFrom(acc, u, version, metadata, order, i) ==
    IF i > Len(order) \/ acc.raised THEN acc
    ELSE IF order[i] \notin DOMAIN u
         THEN UpdateFrom(acc, u, version, metadata, order, i + 1)
         ELSE UpdateFrom(UpdateKey(acc.tree, order[i], u[order[i]], version,
                                   MetadataOf(metadata, order[i]), order),
                         u, version, metadata, order, i + 1)

UpdateKey(d, k, v, version, metadata, order) ==
    IF IsMapping(v)
    THEN \* d[k] = Shadow.update(d.get(k, {}), v, version, metadata.get(k, {}))
         IF k \notin DOMAIN d
         THEN LET r == Shadow_update(EmptyMap, v, version, metadata, order)
              IN  IF r.raised THEN [tree |-> d, raised |-> TRUE]
                  ELSE [tree |-> Put(d, k, r.tree), raised |-> FALSE]
         ELSE IF IsLeaf(d[k])
              THEN [tree |-> d, raised |-> DOMAIN v # {}]
              ELSE LET r == Shadow_update(d[k], v, version, metadata, order)
                   IN  [tree |-> Put(d, k, r.tree), raised |-> r.raised]
    ELSE \* if k not in d: d[k] = LockedData(); d[k].set_value(v, version, metadata)
         IF k \notin DOMAIN d
         THEN [tree |-> Put(d, k, set_value(LockedData, v, version, metadata)),
               raised |-> FALSE]
         ELSE IF IsLeaf(d[k])
              THEN [tree |-> Put(d, k, set_value(d[k], v, version, metadata)),
                    raised |-> FALSE]
              ELSE [tree |-> d, raised |-> TRUE]

\* the documents of a message.  Under "a": a scalar, or a mapping of scalars;
\* under "b": one scalar, or one mapping
InnerDocs ==
    UNION { {v \in [S -> {Scalar(x) : x \in LeafValues}] : "b" \in S => v["b"] = Scalar("1")} :
            S \in SUBSET Keys }
ValuesAt(k) ==
    IF k = "a" THEN InnerDocs \cup {Scalar(x) : x \in LeafValues}
    ELSE {Scalar("1"), [j \in {"a"} |-> Scalar("1")]}
UpdateDocs ==
    UNION { {u \in [S -> UNION {ValuesAt(k) : k \in S}] : \A k \in S : u[k] \in ValuesAt(k)} :
            S \in SUBSET Keys }
\* the documents of a delta
DeltaDocs == { EmptyMap, [k \in {"a"} |-> Scalar("1")],
               [k \in {"a"} |-> [j \in {"b"} |-> Scalar("2")]] }

\* the documents merged beside a reader: a leaf, two leaves, a subtree of one
\* leaf and of two
RaceDocs ==
    { [k \in {"a"} |-> Scalar("1")],
      [k \in Keys |-> IF k = "a" THEN Scalar("2") ELSE Scalar("1")],
      [k \in {"b"} |-> [j \in {"a"} |-> Scalar("1")]],
      [k \in {"b"} |-> [j \in Keys |-> IF j = "a" THEN Scalar("2") ELSE Scalar("1")]] }

\* the deltas of a get response
GetDeltaDocs == { EmptyMap, [k \in {"a"} |-> Scalar("1")] }

\* response.metadata.reported: a timestamp for every leaf of the document
RECURSIVE Timestamps(_)
Timestamps(u) ==
    [k \in DOMAIN u |-> IF IsMapping(u[k]) THEN Timestamps(u[k]) ELSE Scalar("t1")]

\* merge: pc is where the callback thread stands in Shadow.update; du and u the
\* documents of the callback; metadata and order those of the call on u; before
\* the tree the call began with; i and j the positions of the outer and the inner
\* loop (j = 0: no inner call); fresh and local the {} of d.get(k, {}) that the
\* inner call fills before d[k] = ... attaches it; cb the callback.
IdleMerge == [pc |-> "idle", du |-> EmptyMap, u |-> EmptyMap, raised |-> FALSE,
              metadata |-> None, order |-> << >>, before |-> EmptyMap,
              i |-> 0, j |-> 0, fresh |-> FALSE, local |-> EmptyMap, cb |-> ""]
\* reader: the leaf it reads, the leaf before and after the merge in progress,
\* and the fields it has read
IdleReader == [pc |-> "idle", path |-> << >>, old |-> LockedData, new |-> LockedData,
               seen |-> LockedData]

\* a callback ran Shadow.update on self.desired with du, then (unless that raised)
\* on self.reported with u; except Exception: exit(e)
Merged(du, dmetadata, u, metadata, order) ==
    LET rd == Shadow_update(desired, du, None, dmetadata, order)
        rr == Shadow_update(reported, u, None, metadata, order)
    IN  /\ desired' = rd.tree
        /\ reported' = IF rd.raised THEN reported ELSE rr.tree
        /\ merge' = [IdleMerge EXCEPT !.du = du,
                        !.u = IF rd.raised THEN EmptyMap ELSE u,
                        !.raised = rd.raised \/ rr.raised]

\* on_get_shadow_accepted(response): delta into desired, reported into reported,
\* each with its metadata when the response has metadata; then the flag
on_get_shadow_accepted(du, u, order) ==
    /\ merge.pc = "idle" /\ reader.pc = "idle"
    /\ ~inital_state
    /\ Merged(du, Timestamps(du), u, Timestamps(u), order)
    /\ inital_state' = (inital_state \/ ~merge'.raised)
    /\ UNCHANGED << family, ctrl, logged, MQTTSystems, clock, task, mqtt, reader >>

\* on_shadow_delta_updated(delta): delta.state into desired
on_shadow_delta_updated(du, order) ==
    /\ merge.pc = "idle" /\ reader.pc = "idle"
    /\ Merged(du, None, EmptyMap, None, order)
    /\ UNCHANGED << family, ctrl, logged, MQTTSystems, clock, task, mqtt, reader,
                    inital_state >>

\* on_update_shadow_accepted(response): response.state.reported into reported,
\* without metadata (its response.state.desired is empty)
on_update_shadow_accepted(u, order) ==
    /\ merge.pc = "idle" /\ reader.pc = "idle"
    /\ Merged(EmptyMap, None, u, None, order)
    /\ UNCHANGED << family, ctrl, logged, MQTTSystems, clock, task, mqtt, reader,
                    inital_state >>

----------------------------------------------------------------------------
(* Shadow.update statement by statement, on the shadow client's callback    *)
(* thread, beside a thread that reads the fields of a leaf of self.reported *)
(* as LockedData.__repr__ does: one attribute at a time, without the lock.  *)

\* a callback begins Shadow.update(self.reported, u, metadata=...)
BeginUpdate(cb, u, metadata, order) ==
    /\ merge.pc = "idle" /\ reader.pc \in {"idle", "done"}
    /\ merge' = [IdleMerge EXCEPT !.pc = "loop", !.u = u, !.metadata = metadata,
                                  !.order = order, !.before = reported, !.i = 1,
                                  !.cb = cb]
    /\ UNCHANGED << family, ctrl, logged, MQTTSystems, clock, task, mqtt, reader,
                    reported, desired, inital_state >>

\* on_get_shadow_accepted reaches its Shadow.update on self.reported
BeginGetAccepted(u, order) ==
    /\ ~inital_state
    /\ BeginUpdate("get", u, Timestamps(u), order)

\* on_update_shadow_accepted reaches its Shadow.update on self.reported
BeginUpdateAccepted(u, order) == BeginUpdate("update", u, None, order)

OuterKey == merge.order[merge.i]
InnerKey == merge.order[merge.j]
\* the dict the inner call works on
InnerDict == IF merge.fresh THEN merge.local ELSE reported[OuterKey]
\* the leaf set_value is writing, the value and the metadata it writes
TargetLeaf == IF merge.j = 0 THEN reported[OuterKey] ELSE InnerDict[InnerKey]
TargetValue == IF merge.j = 0 THEN merge.u[OuterKey] ELSE merge.u[OuterKey][InnerKey]
TargetMetadata ==
    IF merge.j = 0 THEN MetadataOf(merge.metadata, OuterKey)
    ELSE MetadataOf(MetadataOf(merge.metadata, OuterKey), InnerKey)
\* the tree and the local dict with the target leaf replaced
WriteLeaf(leaf) ==
    IF merge.j = 0
    THEN reported' = Put(reported, OuterKey, leaf) /\ merge' = [merge EXCEPT !.pc = "set_value"]
    ELSE IF merge.fresh
         THEN /\ merge' = [merge EXCEPT !.pc = "set_value",
                                        !.local = Put(@, InnerKey, leaf)]
              /\ UNCHANGED reported
         ELSE /\ reported' = Put(reported, OuterKey, Put(reported[OuterKey], InnerKey, leaf))
              /\ merge' = [merge EXCEPT !.pc = "set_value"]
Raise == merge' = [IdleMerge EXCEPT !.u = merge.u, !.raised = TRUE] /\ UNCHANGED reported
Advance(m) == IF m.j = 0 THEN [m EXCEPT !.i = @ + 1] ELSE [m EXCEPT !.j = @ + 1]

\* one pass of "for k, v in u.items()" up to the statement that writes
LoopStep ==
    /\ merge.pc = "loop"
    /\ IF merge.j = 0
       THEN CASE merge.i > Len(merge.order) ->
                   \* return d: the callback ends
                   /\ merge' = [IdleMerge EXCEPT !.u = merge.u]
                   /\ inital_state' = (inital_state \/ merge.cb = "get")
                   /\ UNCHANGED reported
              [] merge.i <= Len(merge.order) /\ OuterKey \notin DOMAIN merge.u ->
                   /\ merge' = Advance(merge)
                   /\ UNCHANGED << reported, inital_state >>
              [] OTHER ->
                   /\ UNCHANGED inital_state
                   /\ IF IsMapping(merge.u[OuterKey])
                      THEN IF OuterKey \notin DOMAIN reported
                           THEN /\ merge' = [merge EXCEPT !.j = 1, !.fresh = TRUE,
                                                          !.local = EmptyMap]
                                /\ UNCHANGED reported
                           ELSE IF IsLeaf(reported[OuterKey])
                                THEN IF DOMAIN merge.u[OuterKey] = {}
                                     THEN merge' = Advance(merge) /\ UNCHANGED reported
                                     ELSE Raise
                                ELSE /\ merge' = [merge EXCEPT !.j = 1, !.fresh = FALSE]
                                     /\ UNCHANGED reported
                      ELSE IF OuterKey \notin DOMAIN reported
                           THEN WriteLeaf(LockedData)
                           ELSE IF IsLeaf(reported[OuterKey])
                                THEN WriteLeaf(reported[OuterKey])
                                ELSE Raise
       ELSE /\ UNCHANGED inital_state
            /\ CASE merge.j > Len(merge.order) ->
                   \* the inner call returns: d[k] = its dict
                   /\ reported' = Put(reported, OuterKey, InnerDict)
                   /\ merge' = [merge EXCEPT !.i = @ + 1, !.j = 0, !.fresh = FALSE,
                                             !.local = EmptyMap]
                 [] merge.j <= Len(merge.order)
                      /\ InnerKey \notin DOMAIN merge.u[OuterKey] ->
                   merge' = Advance(merge) /\ UNCHANGED reported
                 [] OTHER ->
                   IF InnerKey \notin DOMAIN InnerDict
                   THEN WriteLeaf(LockedData)
                   ELSE IF IsLeaf(InnerDict[InnerKey])
                        THEN WriteLeaf(InnerDict[InnerKey])
                        ELSE Raise
    /\ UNCHANGED << family, ctrl, logged, MQTTSystems, clock, task, mqtt, reader, desired >>

\* set_value, one attribute per step: self.value = value; self.metadata =
\* metadata; self.version = version
SetField(f, x, pc, m) ==
    /\ IF m.j = 0
       THEN reported' = Put(reported, OuterKey, [TargetLeaf EXCEPT ![f] = x])
            /\ merge' = [m EXCEPT !.pc = pc]
       ELSE IF m.fresh
            THEN /\ merge' = [m EXCEPT !.pc = pc,
                                 !.local = Put(@, InnerKey, [TargetLeaf EXCEPT ![f] = x])]
                 /\ UNCHANGED reported
            ELSE /\ reported' = Put(reported, OuterKey,
                                    Put(reported[OuterKey], InnerKey,
                                        [TargetLeaf EXCEPT ![f] = x]))
                 /\ merge' = [m EXCEPT !.pc = pc]
    /\ UNCHANGED << family, ctrl, logged, MQTTSystems, clock, task, mqtt, reader,
                    desired, inital_state >>

WriteValue == merge.pc = "set_value" /\ SetField("value", TargetValue, "value_set", merge)
WriteMetadata ==
    merge.pc = "value_set" /\ SetField("metadata", TargetMetadata, "metadata_set", merge)
WriteVersion ==
    merge.pc = "metadata_set" /\ SetField("version", None, "loop", Advance(merge))

\* the tree the call in progress leaves
FinalTree ==
    Shadow_update(merge.before, merge.u, None, merge.metadata, merge.order).tree

\* a thread reaches a leaf of self.reported and reads its value
ReadValue(p) ==
    /\ reader.pc \in {"idle", "done"}
    /\ IsLeaf(At(reported, p))
    /\ reader' = [pc |-> "value_read", path |-> p,
                  old |-> IF merge.pc = "idle" THEN At(reported, p) ELSE At(merge.before, p),
                  new |-> IF merge.pc = "idle" THEN At(reported, p) ELSE At(FinalTree, p),
                  seen |-> [LockedData EXCEPT !.value = At(reported, p).value]]
    /\ UNCHANGED << family, ctrl, logged, MQTTSystems, clock, task, mqtt, merge,
                    reported, desired, inital_state >>

\* it reads the leaf's metadata
ReadMetadata ==
    /\ reader.pc = "value_read"
    /\ reader' = [reader EXCEPT !.pc = "metadata_read",
                                !.seen.metadata = At(reported, reader.path).metadata]
    /\ UNCHANGED << family, ctrl, logged, MQTTSystems, clock, task, mqtt, merge,
                    reported, desired, inital_state >>

\* it reads the leaf's version
ReadVersion ==
    /\ reader.pc = "metadata_read"
    /\ reader' = [reader EXCEPT !.pc = "done",
                                !.seen.version = At(reported, reader.path).version]
    /\ UNCHANGED << family, ctrl, logged, MQTTSystems, clock, task, mqtt, merge,
                    reported, desired, inital_state >>

----------------------------------------------------------------------------
(* The Controller as AqualinkSystem.from_data built it, in a session that   *)
(* has logged in.                                                           *)

Init ==
    /\ family \in Families
    /\ online = "None"
    /\ last_refresh = 0
    /\ temp_unit = IF family = "iaqua" THEN "None" ELSE "C"
    /\ has_spa = "None"
    /\ devices = EmptyMap
    /\ created = EmptyMap
    /\ logged = TRUE
    /\ MQTTSystems = {}
    /\ clock = StartClock
    /\ task = [t \in Tasks |-> IdleTask]
    /\ mqtt = "idle"
    /\ reported = EmptyMap
    /\ desired = EmptyMap
    /\ inital_state = FALSE
    /\ merge = IdleMerge
    /\ reader = IdleReader

Next ==
    \/ \E t \in Callers : update(t)
    \/ \E t \in Callers : get_devices(t)
    \/ \E t \in Callers, r \in Replies : HomeReply(t, r)
    \/ \E t \in Callers, r \in Replies : DevicesReply(t, r)
    \/ \E t \in Callers, p \in HomePayloads : HomeJson(t, p)
    \/ \E t \in Callers, p \in DevicesPayloads : DevicesJson(t, p)
    \/ \E t \in Callers, r \in Replies : ShadowReply(t, r)
    \/ \E t \in Callers, r \in Replies : LoginReply(t, r)
    \/ \E t \in Callers, r \in Replies : ShadowRetryReply(t, r)
    \/ \E t \in Callers, p \in ShadowPayloads : ShadowJson(t, p)
    \/ \E t \in Callers, op \in PoolSetters : set_command(t, op)
    \/ \E t \in Callers, r \in Replies : SetReply(t, r)
    \/ \E t \in Callers, p \in HomePayloads : SetHomeJson(t, p)
    \/ \E t \in Callers, p \in DevicesPayloads : SetDevicesJson(t, p)
    \/ \E t \in Callers, op \in ShadowSetters : set_desired(t, op)
    \/ \E t \in Callers, r \in Replies : DesiredReply(t, r)
    \/ init_MQTT_client
    \/ MQTT_client_onOffline
    \/ \E r \in Replies : MqttLoginReply(r)
    \/ \E d \in TickSteps : Tick(d)

Spec == Init /\ [][Next]_vars

\* The Registry under every payload of the Rich sets: requests answered 200, the
\* pool setters set_temps and set_aux, no MQTT client.
OkReplies == {r \in Replies : send_request(r) = "ok"}

NextRegistry ==
    \/ \E t \in Callers : update(t)
    \/ \E t \in Callers, r \in OkReplies : HomeReply(t, r)
    \/ \E t \in Callers, r \in OkReplies : DevicesReply(t, r)
    \/ \E t \in Callers, p \in RichHomePayloads : HomeJson(t, p)
    \/ \E t \in Callers, p \in RichDevicesPayloads : DevicesJson(t, p)
    \/ \E t \in Callers, r \in OkReplies : ShadowReply(t, r)
    \/ \E t \in Callers, p \in RichShadowPayloads : ShadowJson(t, p)
    \/ \E t \in Callers, op \in {"set_temps", "set_aux"} : set_command(t, op)
    \/ \E t \in Callers, r \in OkReplies : SetReply(t, r)
    \/ \E t \in Callers, p \in RichHomePayloads : SetHomeJson(t, p)
    \/ \E t \in Callers, p \in RichDevicesPayloads : SetDevicesJson(t, p)
    \/ \E d \in TickSteps : Tick(d)

SpecRegistry == Init /\ [][NextRegistry]_vars

\* The Shadow mirror under the messages of the shadow client, one callback at a
\* time.
NextMirror ==
    \/ \E du \in GetDeltaDocs, u \in UpdateDocs, o \in KeyOrders : on_get_shadow_accepted(du, u, o)
    \/ \E du \in DeltaDocs, o \in KeyOrders : on_shadow_delta_updated(du, o)
    \/ \E u \in UpdateDocs, o \in KeyOrders : on_update_shadow_accepted(u, o)

InitMirror == Init /\ family = "exo"

SpecMirror == InitMirror /\ [][NextMirror]_vars

\* Two update() calls of a shadow-document Controller on one event loop, and
\* the MQTT client's thread, all on one AqualinkClient.
InitShadow == Init /\ IsShadow

NextLogin ==
    \/ \E t \in Tasks : update(t)
    \/ \E t \in Tasks, r \in Replies : ShadowReply(t, r)
    \/ \E t \in Tasks, r \in Replies : LoginReply(t, r)
    \/ \E t \in Tasks, r \in Replies : ShadowRetryReply(t, r)
    \/ \E t \in Tasks, p \in ShadowPayloads : ShadowJson(t, p)
    \/ init_MQTT_client
    \/ MQTT_client_onOffline
    \/ \E r \in Replies : MqttLoginReply(r)
    \/ \E d \in TickSteps : Tick(d)

SpecLogin == InitShadow /\ [][NextLogin]_vars

\* update() and the disconnect handler under fair scheduling.  The event loop
\* resumes a coroutine whose response has arrived, so the steps that read a
\* response are weakly fair.  The arrival of a reply is the server's step:
\* _send_request passes no timeout to session.request, and reinit_MQTT_client
\* calls .result() without one, so no step of the program stands in for a
\* reply that does not come.
NextLive ==
    \/ \E t \in Callers : update(t)
    \/ \E t \in Callers, r \in Replies : HomeReply(t, r)
    \/ \E t \in Callers, r \in Replies : DevicesReply(t, r)
    \/ \E t \in Callers, p \in HomePayloads : HomeJson(t, p)
    \/ \E t \in Callers, p \in DevicesPayloads : DevicesJson(t, p)
    \/ \E t \in Callers, r \in Replies : ShadowReply(t, r)
    \/ \E t \in Callers, r \in Replies : LoginReply(t, r)
    \/ \E t \in Callers, r \in Replies : ShadowRetryReply(t, r)
    \/ \E t \in Callers, p \in ShadowPayloads : ShadowJson(t, p)
    \/ init_MQTT_client
    \/ MQTT_client_onOffline
    \/ \E r \in Replies : MqttLoginReply(r)
    \/ \E d \in TickSteps : Tick(d)

ReadsResponse ==
    \/ \E t \in Callers, p \in HomePayloads : HomeJson(t, p)
    \/ \E t \in Callers, p \in DevicesPayloads : DevicesJson(t, p)
    \/ \E t \in Callers, p \in ShadowPayloads : ShadowJson(t, p)

SpecLive == Init /\ [][NextLive]_vars /\ WF_vars(ReadsResponse)

\* Two callers of one pool Controller on one event loop: each runs update() or
\* get_devices(), and the loop resumes either at any await.
InitPool == Init /\ IsPool

NextInterleave ==
    \/ \E t \in Tasks : update(t)
    \/ \E t \in Tasks : get_devices(t)
    \/ \E t \in Tasks, r \in OkReplies : HomeReply(t, r)
    \/ \E t \in Tasks, r \in OkReplies : DevicesReply(t, r)
    \/ \E t \in Tasks, p \in HomePayloads : HomeJson(t, p)
    \/ \E t \in Tasks, p \in DevicesPayloads : DevicesJson(t, p)
    \/ \E d \in TickSteps : Tick(d)

SpecInterleave == InitPool /\ [][NextInterleave]_vars

\* Discovery, called again and again on one client.
NextDiscovery ==
    \/ \E t \in Callers : get_systems(t)
    \/ \E t \in Callers, r \in DiscoveryReplies : SystemsReply(t, r)
    \/ \E t \in Callers, data \in SystemsPayloads : SystemsJson(t, data)

SpecDiscovery == Init /\ [][NextDiscovery]_vars

\* The setters of the three classes, each called on each family.
NextSetters ==
    \/ \E t \in Callers, op \in Implemented : set_command(t, op)
    \/ \E t \in Callers, r \in Replies : SetReply(t, r)
    \/ \E t \in Callers, p \in HomePayloads : SetHomeJson(t, p)
    \/ \E t \in Callers, p \in DevicesPayloads : SetDevicesJson(t, p)
    \/ \E t \in Callers, op \in Implemented : set_desired(t, op)
    \/ \E t \in Callers, r \in Replies : DesiredReply(t, r)
    \/ \E t \in Callers, op \in AllSetters : set_missing(t, op)

SpecSetters == Init /\ [][NextSetters]_vars

\* The mirror of the reported document while a callback merges and a thread
\* reads.
NextRace ==
    \/ \E u \in RaceDocs, o \in KeyOrders : BeginGetAccepted(u, o)
    \/ \E u \in RaceDocs, o \in KeyOrders : BeginUpdateAccepted(u, o)
    \/ LoopStep
    \/ WriteValue
    \/ WriteMetadata
    \/ WriteVersion
    \/ \E p \in Paths : ReadValue(p)
    \/ ReadMetadata
    \/ ReadVersion

SpecRace == InitMirror /\ [][NextRace]_vars

----------------------------------------------------------------------------
(* The claims.                                                              *)

\* a step in which update() of t leaves one of its fetch awaits by raising
FetchAwaits == {"home_req", "devices_req", "shadow_req", "shadow_retry"}
FetchFails(t) == task[t].pc \in FetchAwaits /\ task'[t].pc = "done"
\* a step in which the re-login of update() raises
LoginFails(t) == task[t].pc = "login" /\ task'[t].pc = "done"
\* a step in which update() of t ends after its last parse
CycleCompletes(t) ==
    /\ task[t].pc \in {"devices_json", "shadow_json"}
    /\ task'[t].pc = "done"
    /\ task'[t].result = "ok"
\* a step in which a parse of update() of t raises the offline exception
ParseRaisesOffline(t) ==
    /\ task[t].pc \in {"home_json", "devices_json", "shadow_json"}
    /\ task'[t].pc = "done"
    /\ task'[t].result = OfflineException
\* a step in which t runs _parse_home_response, in update() or in a setter
ParsesHome(t) ==
    /\ \/ task[t].pc = "home_json"
       \/ task[t].pc = "set_json" /\ task[t].op \in HomeSetters
    /\ task'[t].pc # task[t].pc
\* a step in which t runs _parse_devices_response, in update() or in a setter
ParsesDevices(t) ==
    /\ \/ task[t].pc = "devices_json"
       \/ task[t].pc = "set_json" /\ task[t].op \in DevicesSetters
    /\ task'[t].pc # task[t].pc
\* a step in which t runs _parse_shadow_response
ParsesShadow(t) == task[t].pc = "shadow_json" /\ task'[t].pc # task[t].pc
\* the real time since last_refresh, in ticks, is less than the minimum interval
WithinInterval == clock - last_refresh * TicksPerSec < MIN_SECS_TO_REFRESH * TicksPerSec
\* the last call of t was an update() that sent a request
LastCallFetched(t) ==
    task[t].pc = "done" /\ task[t].op = "update" /\ task[t].requests >= 1

\* C1: in every family, an update() called when fewer than MIN_SECS_TO_REFRESH
\* seconds of real time have passed since last_refresh sends no request, raises
\* nothing and leaves online, last_refresh, temp_unit, has_spa, the Registry (and
\* the client's logged flag) as they were.
C1_ThrottledUpdateIsNoOp ==
    [][\A t \in Tasks :
         (update(t) /\ WithinInterval)
         => /\ task'[t].pc = "done"
            /\ task'[t].result = "ok"
            /\ task'[t].requests = 0
            /\ task'[t].logins = 0
            /\ UNCHANGED << online, last_refresh, temp_unit, has_spa, devices,
                            created, logged >>]_vars

\* a throttled update() of a chlorinator that has refreshed before, called at a
\* time that is not a whole second
C1_Witness ==
    \E t \in Tasks :
        /\ family = "exo"
        /\ task[t].pc = "done" /\ task[t].op = "update"
        /\ task[t].result = "ok" /\ task[t].requests = 0
        /\ task[t].now = IntTime
        /\ clock % TicksPerSec # 0
        /\ WithinInterval
        /\ last_refresh > 0 /\ online = "True" /\ DOMAIN devices # {}

\* C2, as claimed: when the caller's last update() sent a request, whatever its
\* outcome, an update() that starts fewer than MIN_SECS_TO_REFRESH whole seconds
\* after it sends none.
C2_SecondCallNeverFetches ==
    [][\A t \in Tasks :
         (update(t) /\ LastCallFetched(t) /\ IntTime - task[t].now < MIN_SECS_TO_REFRESH)
         => task'[t].requests = 0]_vars

\* C2, amended: when the caller's last update() sent its requests and completed
\* successfully, an update() that starts fewer than MIN_SECS_TO_REFRESH whole
\* seconds after it sends no request.
C2_SecondCallAfterSuccessThrottled ==
    [][\A t \in Tasks :
         (/\ update(t)
          /\ LastCallFetched(t)
          /\ task[t].result = "ok"
          /\ IntTime - task[t].now < MIN_SECS_TO_REFRESH)
         => (task'[t].pc = "done" /\ task'[t].requests = 0 /\ UNCHANGED ctrl)]_vars

\* a second update(), MIN_SECS_TO_REFRESH - 1 whole seconds after the refresh,
\* that returned without a request
C2_Witness ==
    \E t \in Tasks :
        /\ task[t].pc = "done" /\ task[t].op = "update"
        /\ task[t].result = "ok" /\ task[t].requests = 0
        /\ last_refresh > 0
        /\ task[t].now - last_refresh = MIN_SECS_TO_REFRESH - 1

\* C3: the step that completes an update() whose fetches and parses succeeded
\* sets online to True and last_refresh to int(time.time()) of that step, a later
\* second than the one it held and not before the call began, whatever online was.
C3_SuccessMarksOnlineAndStamps ==
    [][\A t \in Tasks :
         CycleCompletes(t)
         => /\ online' = "True"
            /\ last_refresh' = IntTime
            /\ last_refresh' >= task[t].now
            /\ last_refresh' > last_refresh]_vars

\* a second successful cycle: last_refresh has left the stamp of the first
C3_Witness ==
    \E t \in Tasks :
        /\ task[t].pc = "done" /\ task[t].op = "update"
        /\ task[t].result = "ok" /\ task[t].requests >= 1
        /\ online = "True"
        /\ last_refresh = IntTime
        /\ last_refresh > MIN_SECS_TO_REFRESH

\* C4, as claimed: when a fetch of update() fails at the transport, online
\* becomes None, last_refresh is unchanged and the exception reaches the caller.
C4_FetchFailureMarksUnknown ==
    [][\A t \in Tasks :
         FetchFails(t)
         => /\ online' = "None"
            /\ last_refresh' = last_refresh
            /\ task'[t].result \in {ServiceException, Unauthorized, ClientError}]_vars

\* C5: when a section parsed by update() carries the offline marker, online
\* becomes False, the offline exception reaches the caller and last_refresh is
\* unchanged.
C5_OfflineMarkerMarksOffline ==
    [][\A t \in Tasks :
         /\ (/\ ParsesHome(t) \/ ParsesDevices(t)
             /\ task[t].pc # "set_json"
             /\ task'[t].data.status = "Offline")
            => /\ online' = "False"
               /\ task'[t].pc = "done" /\ task'[t].result = OfflineException
               /\ last_refresh' = last_refresh
         /\ ParseRaisesOffline(t) => (online' = "False" /\ last_refresh' = last_refresh)]_vars

\* an update() of a Controller that was online and refreshed ended offline: two
\* requests sent, the stamp of the earlier refresh kept
C5_Witness ==
    \E t \in Tasks :
        /\ task[t].pc = "done" /\ task[t].op = "update"
        /\ task[t].result = OfflineException /\ task[t].requests = 2
        /\ online = "False"
        /\ last_refresh > 0 /\ task[t].now > last_refresh

\* the steps that C6 lets change online
OnlineChangeByUpdate ==
    /\ online' = "None" =>
          \E t \in Tasks : (FetchFails(t) \/ LoginFails(t))
                           /\ task'[t].result \in {ServiceException, Unauthorized}
    /\ online' = "False" => \E t \in Tasks : ParseRaisesOffline(t)
    /\ online' = "True" => \E t \in Tasks : CycleCompletes(t)

C7_RefreshOnlyOnSuccess ==
    [][last_refresh' # last_refresh =>
         \E t \in Tasks : CycleCompletes(t) /\ online' = "True"]_vars

\* an update() that failed at the transport after an earlier refresh, at a later
\* second: the stamp is still that of the refresh
C7_Witness ==
    \E t \in Tasks :
        /\ task[t].pc = "done" /\ task[t].op = "update"
        /\ task[t].result = ServiceException
        /\ online = "None"
        /\ last_refresh > 0 /\ task[t].now >= last_refresh + MIN_SECS_TO_REFRESH

\* C8, as claimed: in every family, a fetch of update() answered 401 is followed
\* by one login() and one retry of the fetch.
C8_UnauthorizedReloginsOnce ==
    [][\A t \in Tasks : \A r \in Replies :
         (/\ HomeReply(t, r) \/ DevicesReply(t, r) \/ ShadowReply(t, r)
          /\ r.kind = "response" /\ r.status = 401)
         => (task'[t].pc = "login" /\ task'[t].logins = 1)]_vars

\* C9, as claimed: one update() makes at most one login() and two fetches, and
\* when the re-login or the retried fetch fails the caller gets the error with
\* online None, last_refresh unchanged and no further request sent.
C9_OneLoginTwoFetches ==
    [][\A t \in Tasks :
         /\ task'[t].logins <= 1
         /\ task'[t].requests <= 2
         /\ (LoginFails(t) \/ (task[t].pc = "shadow_retry" /\ task'[t].pc = "done"))
            => /\ online' = "None"
               /\ last_refresh' = last_refresh
               /\ task'[t].requests = task[t].requests]_vars

\* what a parse whose flattened payload is flat does to the Devices the Registry
\* held: the same object and variant under each name, the attributes of flat[k]
\* overwritten or added, every other attribute as it was
KeepsAndMerges(flat) ==
    \A k \in DOMAIN devices :
        /\ k \in DOMAIN devices'
        /\ devices'[k].obj = devices[k].obj
        /\ devices'[k].cls = devices[k].cls
        /\ \A a \in DOMAIN devices[k].data :
              /\ a \in DOMAIN devices'[k].data
              /\ devices'[k].data[a] =
                    IF k \in DOMAIN flat /\ a \in DOMAIN flat[k]
                    THEN flat[k][a] ELSE devices[k].data[a]
        /\ \A a \in (DOMAIN devices'[k].data) \ (DOMAIN devices[k].data) :
              /\ k \in DOMAIN flat /\ a \in DOMAIN flat[k]
              /\ devices'[k].data[a] = flat[k][a]

C11_RegistryKeysNeverShrink == [][DOMAIN devices \subseteq DOMAIN devices']_vars

\* an update() of the pool Controller whose devices screen had no entry ended
\* with both names of earlier parses still registered
C11_Witness ==
    \E t \in Tasks :
        /\ family = "iaqua"
        /\ task[t].pc = "done" /\ task[t].op = "update" /\ task[t].result = "ok"
        /\ task[t].data.entries = << >>
        /\ DOMAIN devices = {"spa_set_point", "aux_1"}

\* C12: a run of _parse_devices_response, in update() or in a setter, on a
\* section whose status is Offline raises the offline exception and leaves the
\* Registry, with every Device in it, as it was.
C12_OfflineDevicesLeavesRegistry ==
    [][\A t \in Tasks :
         (ParsesDevices(t) /\ task'[t].data.status = "Offline")
         => /\ task'[t].pc = "done"
            /\ task'[t].result = OfflineException
            /\ UNCHANGED << devices, created, temp_unit, has_spa >>]_vars

\* an update() raised on an offline devices screen with entries, in a Registry
\* that earlier parses had filled
C12_Witness ==
    \E t \in Tasks :
        /\ task[t].pc = "done" /\ task[t].op = "update"
        /\ task[t].result = OfflineException
        /\ DOMAIN task[t].data = {"status", "entries"}
        /\ task[t].data.status = "Offline"
        /\ task[t].data.entries # << >>
        /\ "aux_1" \in DOMAIN devices
        /\ "label" \in DOMAIN devices["aux_1"].data

\* what C13 says of one merge of u into old that left new
MergeKeeps(old, u, new) ==
    \A p \in Paths :
        /\ IsScalar(At(u, p)) => (IsLeaf(At(new, p)) /\ At(new, p)["value"] = At(u, p))
        /\ (IsLeaf(At(old, p)) /\ At(u, p) = Missing) => At(new, p) = At(old, p)
        /\ At(old, p) # Missing => At(new, p) # Missing

\* the tree has a leaf where the document has a mapping with keys, or a subtree
\* where the document has a scalar
ShapesDiffer(old, u) ==
    \E p \in Paths :
        \/ IsLeaf(At(old, p)) /\ IsContainer(At(u, p)) /\ DOMAIN At(u, p) # {}
        \/ IsContainer(At(old, p)) /\ IsScalar(At(u, p))

\* C13, as claimed: after every merge of a document into a mirror tree, every
\* leaf path of the document holds the document's value, every leaf path absent
\* from the document holds the leaf it held, and no path of the tree is gone.
C13_MergeKeepsUnmentioned ==
    [][merge' # merge =>
         /\ MergeKeeps(reported, merge'.u, reported')
         /\ MergeKeeps(desired, merge'.du, desired')]_vars

\* C13 where it holds: a merge of a document whose shape agrees with the tree's
\* does not raise and does what C13 says.
C13_MergeKeepsWhenShapesAgree ==
    [][(merge' # merge /\ ~ShapesDiffer(reported, merge'.u)
                       /\ ~ShapesDiffer(desired, merge'.du)) =>
         /\ ~merge'.raised
         /\ MergeKeeps(reported, merge'.u, reported')
         /\ MergeKeeps(desired, merge'.du, desired')]_vars

\* the merge of the spec's example: a.b kept beside a.a
C13_Witness ==
    /\ ~merge.raised
    /\ merge.u = [k \in {"a"} |-> [j \in {"a"} |-> Scalar("2")]]
    /\ DOMAIN reported = {"a"}
    /\ DOMAIN reported["a"] = {"a", "b"}
    /\ reported["a"]["b"]["value"] = Scalar("1")
    /\ reported["a"]["a"]["value"] = Scalar("2")

\* a leaf that the tree held when the merge in progress began is still a leaf
LeavesStay ==
    merge.pc # "idle" =>
        \A p \in Paths : IsLeaf(At(merge.before, p)) => IsLeaf(At(reported, p))

\* C14, as claimed: a thread that read the fields of a leaf while a merge was in
\* progress on the callback thread has read the leaf's fields as they were
\* before the merge or as the merge leaves them, never some of each; and no leaf
\* the tree held before the merge is missing while it runs.
C14_ReaderSeesOldOrNewLeaf ==
    /\ reader.pc = "done" => reader.seen \in {reader.old, reader.new}
    /\ LeavesStay

\* the part of C14 that holds: no leaf is missing during a merge
C14_NoLeafMissingDuringMerge == LeavesStay

\* C15, as claimed: in the shadow-document families an update() call sends no
\* request for the shadow document and leaves the Registry as it was.
C15_ShadowUpdateOnlyStamps ==
    [][IsShadow =>
         \A t \in Tasks :
             (task'[t].op = "update" /\ task'[t] # task[t])
             => /\ task'[t].requests = 0
                /\ UNCHANGED << devices, created >>]_vars

\* the Registry reg holds the values of document u as _parse_shadow_response
\* flattens them: a bag per key, a scalar as its "state", a mapping's items as
\* its attributes
DocInRegistry(u, reg) ==
    \A k \in DOMAIN u :
        /\ k \in DOMAIN reg
        /\ IF IsMapping(u[k])
           THEN \A j \in DOMAIN u[k] :
                    j \in DOMAIN reg[k].data /\ reg[k].data[j] = u[k][j]
           ELSE "state" \in DOMAIN reg[k].data /\ reg[k].data["state"] = u[k]

\* C16, as claimed: once a callback has merged a reported document, or a delta,
\* into the mirror, the Registry holds every value of the document merged.
C16_RegistryFollowsMirror ==
    [][(merge' # merge /\ ~merge'.raised) =>
         /\ DocInRegistry(merge'.u, devices')
         /\ merge'.u = EmptyMap => DocInRegistry(merge'.du, devices')]_vars

\* the signal the specification names for a command the family lacks
Unsupported == "Unsupported"

\* C17, as claimed: a set_* call that the Controller's family does not implement
\* ends with the Unsupported signal, not with success and not with another
\* error.
C17_MissingSetterRaisesUnsupported ==
    \A t \in Tasks :
        (task[t].pc = "done" /\ task[t].op \in AllSetters \ Implemented)
        => task[t].result = Unsupported

\* the login() calls in progress: those of update() calls that saw a 401, and
\* that of the MQTT client's disconnect handler
LoginsInProgress ==
    Cardinality({t \in Tasks : task[t].pc = "login"}) + (IF mqtt = "login" THEN 1 ELSE 0)

\* C18, as claimed: the fetches and the disconnect handler that see an expired
\* token at the same time cause at most two login() calls between them.
C18_AtMostTwoLogins == LoginsInProgress <= 2

\* an update() of the Controller is between two of its awaits
UpdateInFlight ==
    \E t \in Tasks : ~Ready(t) /\ task[t].op \in {"update", "get_devices"}

\* C19, as claimed: a step of the MQTT client's thread writes no field of the
\* Controller, and while an update() is in flight only the steps of that
\* update() change the Controller.
C19_NoWriteFromCallbackThread ==
    [][/\ mqtt' # mqtt => UNCHANGED ctrl
       /\ (UpdateInFlight /\ UNCHANGED task) => UNCHANGED ctrl]_vars

\* C20, as claimed: under fair scheduling every update() in progress comes to
\* its end, and the disconnect handler's wait for its login() ends.
C20_EveryWaitEnds ==
    /\ \A t \in Callers : (task[t].op = "update" /\ ~Ready(t)) ~> Ready(t)
    /\ (mqtt = "login") ~> (mqtt = "idle")

\* C21, as claimed: a pool setter whose response carries the offline marker
\* raises the offline exception to its caller with online = False.
C21_OfflineSetterMarksOffline ==
    [][\A t \in Tasks :
         (task[t].pc = "set_json" /\ task'[t].pc = "done" /\ IsOffline(task'[t].data))
         => /\ task'[t].result = OfflineException
            /\ online' = "False"]_vars

SupportedTags == {"iaqua", "exo", "zs500"}
\* a get_systems call has returned
Discovered(t) == task[t].op = "get_systems" /\ task[t].pc = "done" /\ task[t].result = "ok"
EntriesOf(t) == {task[t].data[i] : i \in 1..Len(task[t].data)}

\* C22: a systems response answered 200 never makes get_systems raise, whatever
\* its type tags; a serial number that only entries with an unsupported tag carry
\* is not in the dict returned, the serial number of every entry with a
\* supported tag is, and no value of the dict is None.
C22_UnsupportedTagsAreOmitted ==
    \A t \in Tasks :
        /\ (task[t].op = "get_systems" /\ task[t].pc = "done" /\ DOMAIN task[t].data # {})
           => task[t].result = "ok"
        /\ Discovered(t) =>
              /\ \A x \in EntriesOf(t) :
                    x.device_type \in SupportedTags
                    => x.serial_number \in DOMAIN task[t].returned
              /\ \A s \in Serials :
                    (\A x \in EntriesOf(t) :
                        x.serial_number = s => x.device_type \notin SupportedTags)
                    => s \notin DOMAIN task[t].returned
              /\ \A s \in DOMAIN task[t].returned : task[t].returned[s].cls # "None"

\* a response with an unsupported entry and a supported one gave the one Controller
C22_Witness ==
    \E t \in Tasks :
        /\ Discovered(t)
        /\ task[t].data = << [serial_number |-> "ABCDEFG", device_type |-> "foo"],
                             [serial_number |-> "HIJKLMN", device_type |-> "exo"] >>
        /\ DOMAIN task[t].returned = {"HIJKLMN"}

\* C23: the dict get_systems returns has one Controller under each serial number
\* of the supported entries and no other key; the Controller under a serial
\* number was built from an entry with that serial number, and its class is the
\* one of that entry's type tag.
C23_OneControllerPerSerial ==
    \A t \in Tasks :
        Discovered(t) =>
           /\ DOMAIN task[t].returned =
                 {x.serial_number : x \in {y \in EntriesOf(t) : y.device_type \in SupportedTags}}
           /\ \A s \in DOMAIN task[t].returned :
                 LET c == task[t].returned[s]
                 IN  /\ c.data \in EntriesOf(t)
                     /\ c.data.serial_number = s
                     /\ c.data.device_type = "iaqua" => c.cls = "AqualinkPoolSystem"
                     /\ c.data.device_type = "exo" => c.cls = "eXOChlorinator"
                     /\ c.data.device_type = "zs500" => c.cls = "zs500Heater"

\* two entries with different serial numbers and tags gave a pool Controller and
\* a heat pump
C23_Witness ==
    \E t \in Tasks :
        /\ Discovered(t)
        /\ DOMAIN task[t].returned = Serials
        /\ task[t].returned["ABCDEFG"].cls = "AqualinkPoolSystem"
        /\ task[t].returned["HIJKLMN"].cls = "zs500Heater"

\* the names of the entries of a home screen
NamesOf(entries) == {entries[i][1] : i \in 1..Len(entries)}

\* C24: a home parse that does not raise leaves has_spa = True when the screen
\* has a spa_set_point entry and False when it has none, whatever has_spa was,
\* and temp_unit = the screen's temp_scale; a devices parse changes neither.
C24_HomeParseDerivesSpaAndUnit ==
    [][\A t \in Tasks :
         /\ (ParsesHome(t) /\ ~IsOffline(task'[t].data))
            => /\ has_spa' = IF "spa_set_point" \in NamesOf(task'[t].data.entries)
                             THEN "True" ELSE "False"
               /\ temp_unit' = task'[t].data.temp_scale
         /\ ParsesDevices(t) => UNCHANGED << has_spa, temp_unit >>]_vars

\* a home screen without a spa_set_point entry was parsed by a Controller that an
\* earlier screen had given a spa
C24_Witness ==
    \E t \in Tasks :
        /\ task[t].pc \in {"devices_json", "done"}
        /\ DOMAIN task[t].data = {"status", "temp_scale", "entries"}
        /\ task[t].data.status = "Online"
        /\ "spa_set_point" \notin NamesOf(task[t].data.entries)
        /\ "spa_set_point" \in DOMAIN devices
        /\ has_spa = "False"
        /\ temp_unit = "F"

\* C25, as claimed: when a home parse classifies a Device, the Controller's
\* has_spa and temp_unit already hold the values the parse derives from its
\* screen.
C25_SpaResolvedBeforeClassify ==
    [][\A t \in Tasks :
         (ParsesHome(t) /\ ~IsOffline(task'[t].data) /\ created' # created)
         => /\ TempUnitAtClassify(task'[t].data) = temp_unit'
            /\ HasSpaAtClassify = has_spa']_vars

\* the last element of a devices screen under name n, and the attributes C26
\* names for an element x: aux, name and the pairs of its list
LastNamed(entries, n) ==
    entries[CHOOSE i \in 1..Len(entries) :
                /\ entries[i][1] = n
                /\ \A j \in (i + 1)..Len(entries) : entries[j][1] # n]
PairKeys(x) == {x[2][i][1] : i \in 1..Len(x[2])}
PairValue(x, k) == Scalar(x[2][CHOOSE i \in 1..Len(x[2]) : x[2][i][1] = k][2])
NamedAttrs(x) ==
    [k \in {"aux", "name"} \cup PairKeys(x) |->
        CASE k \in PairKeys(x) -> PairValue(x, k)
          [] k = "aux" -> Scalar(AuxId(x[1]))
          [] OTHER -> Scalar(x[1])]

\* C26, as claimed: after a devices parse every element aux_X of the screen has
\* a toggle Device whose attributes are exactly aux, name and the pairs of the
\* element, and the parse adds no other name to the Registry.
C26_AuxAttributesExactly ==
    [][\A t \in Tasks :
         (ParsesDevices(t) /\ ~IsOffline(task'[t].data))
         => LET entries == task'[t].data.entries
            IN  /\ DOMAIN devices' = DOMAIN devices \cup NamesOf(entries)
                /\ \A n \in NamesOf(entries) :
                      /\ devices'[n].cls = "AqualinkAuxToggle"
                      /\ devices'[n].data = NamedAttrs(LastNamed(entries, n))]_vars

\* C26, amended: the attributes are exactly those when the parse creates the
\* Device; when the Registry already held aux_X the Device keeps the attributes
\* the element does not carry and takes the element's values for the others.
C26_AuxAttributesOfNewDevice ==
    [][\A t \in Tasks :
         (ParsesDevices(t) /\ ~IsOffline(task'[t].data))
         => LET entries == task'[t].data.entries
            IN  /\ DOMAIN devices' = DOMAIN devices \cup NamesOf(entries)
                /\ \A n \in NamesOf(entries) :
                      LET attrs == NamedAttrs(LastNamed(entries, n))
                      IN  /\ devices'[n].cls = "AqualinkAuxToggle"
                          /\ n \notin DOMAIN devices => devices'[n].data = attrs
                          /\ n \in DOMAIN devices =>
                                devices'[n].data = Update(devices[n].data, attrs)]_vars

\* a first devices parse built aux_1 with aux, name and the two pairs of its
\* element
C26_Witness ==
    \E t \in Tasks :
        /\ task[t].pc = "done" /\ task[t].result = "ok"
        /\ DOMAIN task[t].data = {"status", "entries"}
        /\ task[t].data.entries = << <<"aux_1", << <<"state", "1">>, <<"label", "0">> >> >> >>
        /\ devices["aux_1"].obj = 1
        /\ devices["aux_1"].cls = "AqualinkAuxToggle"
        /\ devices["aux_1"].data =
              [aux |-> Scalar("1"), name |-> Scalar("aux_1"),
               state |-> Scalar("1"), label |-> Scalar("0")]

\* the variant C27 names for a scalar fragment of the chlorinator's equipment
ScalarVariant(n) ==
    CASE n = "low" -> "eXOLow"
      [] n = "boost" -> "eXOBoost"
      [] n = "production" -> "eXOProduction"
      [] OTHER -> "AqualinkSensor"

RequestAnswered(t) ==
    /\ task[t].pc \in FetchAwaits \cup {"set_req", "desired_req"}
    /\ task'[t].pc # task[t].pc
\* ... and _send_request raised the unauthorized exception
RaisedUnauthorized(t) ==
    \/ task'[t].pc = "done" /\ task'[t].result = Unauthorized
    \/ task'[t].pc = "login"

\* C28: a request answered 200 returns and leaves logged as it was; one answered
\* 401 raises the unauthorized exception and leaves logged = FALSE; one answered
\* with another status raises the service exception and leaves logged as it was;
\* logged becomes TRUE only in a step in which a login() completes.
C28_StatusDecidesOutcomeAndLogged ==
    [][/\ \A t \in Tasks :
            RequestAnswered(t)
            => /\ RaisedUnauthorized(t) => logged' = FALSE
               /\ (task'[t].pc = "done" /\ task'[t].result = ServiceException)
                  => logged' = logged
               /\ (task'[t].pc \notin {"done", "login"} \/ task'[t].result = "ok")
                  => logged' = logged
       /\ (logged' /\ ~logged)
          => \/ \E t \in Tasks : task[t].pc = "login" /\ task'[t].pc = "shadow_retry"
             \/ mqtt = "login" /\ mqtt' = "idle"]_vars

\* the shadow request of an update() was answered 401, which cleared logged, and
\* the login() of that update() has completed and set it again
C28_Witness ==
    \E t \in Tasks :
        /\ task[t].pc = "shadow_retry"
        /\ task[t].logins = 1
        /\ logged

\* the update() calls of the Controller that have sent a request and not returned
CyclesInFlight == {t \in Tasks : task[t].op = "update" /\ ~Ready(t)}

\* C29, as claimed: an update() that starts while another update() of the
\* Controller awaits its fetch sends no request: at most one fetch cycle of the
\* Controller is in flight.
C29_OneCycleInFlight == Cardinality(CyclesInFlight) <= 1

\* the Registry holds the attributes of the flattened section flat
HoldsSection(reg, flat) ==
    \A k \in DOMAIN flat :
        /\ k \in DOMAIN reg
        /\ \A a \in DOMAIN flat[k] : a \in DOMAIN reg[k].data /\ reg[k].data[a] = flat[k][a]

\* C30: in an update() of the pool Controller the devices parse begins only when
\* the home parse of the same cycle has returned; an offline home screen ends
\* the cycle with the Registry, has_spa and temp_unit as they were; an offline
\* devices screen ends it with the Registry as the home parse left it: holding
\* the attributes of the cycle's home screen, with has_spa and temp_unit derived
\* from that screen, and nothing of the devices screen.
C30_HomeBeforeDevices ==
    [][\A t \in Tasks :
         task[t].op \in {"update", "get_devices"} =>
           /\ (task'[t].pc = "devices_json" /\ task[t].pc # "devices_json")
              => /\ task[t].pc = "home_json"
                 /\ ~IsOffline(task'[t].data)
                 /\ HoldsSection(devices', HomeFlat(task'[t].data.entries))
           /\ (task[t].pc = "home_json" /\ task'[t].pc # "home_json"
                                        /\ IsOffline(task'[t].data))
              => /\ task'[t].pc = "done"
                 /\ task'[t].result = OfflineException
                 /\ UNCHANGED << devices, created, has_spa, temp_unit >>
           /\ (task[t].pc = "devices_json" /\ task'[t].pc # "devices_json"
                                           /\ IsOffline(task'[t].data))
              => /\ task'[t].result = OfflineException
                 /\ UNCHANGED << devices, created, has_spa, temp_unit >>
                 /\ HoldsSection(devices', HomeFlat(task[t].data.entries))
                 /\ temp_unit' = task[t].data.temp_scale
                 /\ has_spa' = IF "spa_set_point" \in NamesOf(task[t].data.entries)
                               THEN "True" ELSE "False"]_vars

\* the first cycle of a Controller parsed a home screen with a spa_set_point
\* entry and then an offline devices screen with an aux_1 element
C30_Witness ==
    \E t \in Tasks :
        /\ task[t].op = "update" /\ task[t].pc = "done"
        /\ task[t].result = OfflineException
        /\ DOMAIN task[t].data = {"status", "entries"}
        /\ NamesOf(task[t].data.entries) = {"aux_1"}
        /\ last_refresh = 0
        /\ online = "False"
        /\ DOMAIN devices = {"spa_set_point"}
        /\ has_spa = "True"

\* the tree new holds, at every key of document u, what u carried: a leaf with
\* the scalar, or a subtree with a leaf for every scalar of the mapping; and the
\* keys of old that u does not name are as they were
HoldsCarried(old, u, new) ==
    /\ \A k \in DOMAIN u :
          /\ k \in DOMAIN new
          /\ IF IsMapping(u[k])
             THEN /\ IsContainer(new[k]) \/ (u[k] = EmptyMap /\ new[k] = EmptyMap)
                  /\ \A j \in DOMAIN u[k] :
                        /\ j \in DOMAIN new[k]
                        /\ IsLeaf(new[k][j]) /\ new[k][j]["value"] = u[k][j]
             ELSE IsLeaf(new[k]) /\ new[k]["value"] = u[k]
    /\ \A k \in DOMAIN old \ DOMAIN u : k \in DOMAIN new /\ new[k] = old[k]

\* C31, as claimed: no merge of a document into a mirror tree raises, whatever
\* the shapes of the tree and the document; afterwards every key of the
\* document holds what the document carried, also where a mapping met a leaf or
\* a scalar met a subtree, and the sibling keys are as they were.
C31_MergeTotalOverShapes ==
    [][merge' # merge =>
         /\ ~merge'.raised
         /\ HoldsCarried(reported, merge'.u, reported')
         /\ HoldsCarried(desired, merge'.du, desired')]_vars

\* the equipment fragment the family's parse pops before the upserts
Excluded == IF family = "exo" THEN "vsp_speed" ELSE "debug"

\* the bag of document entry n -> v as the Registry reg holds it after a parse
\* that began with the Registry old: every item of a mapping v is an attribute,
\* a scalar v is the state and, on a Device the parse built, the only attribute
\* beside name
HoldsEntry(old, reg, n, v) ==
    /\ n \in DOMAIN reg
    /\ IF IsMapping(v)
       THEN \A k \in DOMAIN v : k \in DOMAIN reg[n].data /\ reg[n].data[k] = Scalar(v[k])
       ELSE /\ reg[n].data["state"] = v
            /\ n \notin DOMAIN old => DOMAIN reg[n].data = {"name", "state"}

\* the chlorinator's heating bag
HoldsHeating(reg, heating) ==
    family = "exo" =>
        /\ "heating" \in DOMAIN reg
        /\ reg["heating"].data["name"] = Scalar("heating")
        /\ \A k \in DOMAIN heating : reg["heating"].data[k] = heating[k]

Variants == {"eXOLow", "eXOBoost", "eXOProduction", "eXOThermostat", "eXOAuxToggle",
             "AqualinkAuxToggle", "AqualinkThermostat", "AqualinkSensor"}

AddressedPath(op) ==
    CASE family = "exo" /\ op \in {"set_heater", "set_temps"} ->
            <<"heating", IF op = "set_heater" THEN "enabled" ELSE "sp">>
      [] family = "exo" /\ op = "set_aux" -> <<"equipment", "swc_0", "aux_1", "state">>
      [] family = "exo" /\ op = "set_production" -> <<"equipment", "swc_0", "production">>
      [] family = "exo" /\ op = "set_boost" -> <<"equipment", "swc_0", "boost">>
      [] family = "exo" /\ op = "set_low" -> <<"equipment", "swc_0", "low">>
      [] family = "zs500" /\ op = "set_heater" -> <<"equipment", "hp_0", "state">>
      [] family = "zs500" /\ op = "set_temps" -> <<"equipment", "hp_0", "tsp">>

\* C34: a setter of a shadow-document Controller sends one desired document,
\* which names exactly the key path the setter addresses, and returns or raises
\* on its reply; neither step changes the Registry, a Device, online,
\* last_refresh, temp_unit or has_spa.
C34_ShadowSetterOnlySends ==
    [][\A t \in Tasks :
         /\ (IsShadow /\ task'[t].pc = "desired_req" /\ task[t].pc # "desired_req")
            => /\ task'[t].requests = 1
               /\ task'[t].data = [desired |-> AddressedPath(task'[t].op)]
               /\ UNCHANGED ctrl
         /\ (task[t].pc = "desired_req" /\ task'[t] # task[t])
            => /\ task'[t].pc = "done"
               /\ task'[t].requests = 1
               /\ task'[t].data = task[t].data
               /\ UNCHANGED ctrl]_vars

\* set_boost of the chlorinator returned
C34_Witness ==
    \E t \in Tasks :
        /\ family = "exo"
        /\ task[t].pc = "done" /\ task[t].op = "set_boost" /\ task[t].result = "ok"
        /\ task[t].requests = 1
        /\ task[t].data = [desired |-> <<"equipment", "swc_0", "boost">>]

\* a step in which the caller t invokes a setter of the pool Controller
CallsPoolSetter(t) ==
    /\ IsPool /\ Ready(t)
    /\ task'[t] # task[t]
    /\ task'[t].op \in PoolSetters

\* C35: a call of a pool setter sends one vendor command whatever the time since
\* last_refresh; the call sends nothing else, and when it returns, the Registry
\* holds the command's response: parsed as a home screen (temp_unit and has_spa
\* derived from it) by set_pump, set_heater and set_temps, as a devices screen
\* by set_aux and set_light.
C35_PoolSetterSendsAndMerges ==
    [][\A t \in Tasks :
         /\ CallsPoolSetter(t)
            => task'[t].pc = "set_req" /\ task'[t].requests = 1 /\ UNCHANGED ctrl
         /\ (task[t].op \in PoolSetters /\ task[t].pc \in {"set_req", "set_json"})
            => task'[t].requests = 1
         /\ (task[t].pc = "set_json" /\ task'[t].pc = "done" /\ task'[t].result = "ok")
            => LET p == task'[t].data
               IN  /\ UNCHANGED << online, last_refresh >>
                   /\ IF task[t].op \in HomeSetters
                      THEN /\ "temp_scale" \in DOMAIN p
                           /\ HoldsSection(devices', HomeFlat(p.entries))
                           /\ KeepsAndMerges(HomeFlat(p.entries))
                           /\ temp_unit' = p.temp_scale
                           /\ has_spa' = IF "spa_set_point" \in NamesOf(p.entries)
                                         THEN "True" ELSE "False"
                      ELSE /\ task[t].op \in DevicesSetters
                           /\ "temp_scale" \notin DOMAIN p
                           /\ HoldsSection(devices', DevicesFlat(p.entries))
                           /\ KeepsAndMerges(DevicesFlat(p.entries))
                           /\ UNCHANGED << temp_unit, has_spa >>]_vars

\* a setter returned less than MIN_SECS_TO_REFRESH seconds after a refresh, with
\* its response merged
C35_Witness ==
    \E t \in Tasks :
        /\ task[t].op = "set_aux" /\ task[t].pc = "done" /\ task[t].result = "ok"
        /\ task[t].requests = 1
        /\ last_refresh > 0 /\ WithinInterval
        /\ task[t].data.entries # << >>
        /\ HoldsSection(devices, DevicesFlat(task[t].data.entries))

\* C36: no step of update() up to the return of its last fetch (the call, a
\* reply to a fetch, the re-login) changes the Registry, a Device, temp_unit or
\* has_spa, so an update() that raises at the transport leaves them as they
\* were; and in the pool family the home parse begins only when the devices
\* fetch has returned.
C36_TransportFailureLeavesRegistry ==
    [][\A t \in Tasks :
         /\ (task'[t] # task[t] /\ task'[t].op \in {"update", "get_devices"}
                                /\ task[t].pc \in {"idle", "done", "login"} \cup FetchAwaits)
            => UNCHANGED << devices, created, temp_unit, has_spa >>
         /\ (FetchFails(t) \/ LoginFails(t))
            => /\ task'[t].result \in {Unauthorized, ServiceException, ClientError}
               /\ UNCHANGED << devices, created, temp_unit, has_spa >>
         /\ (task'[t].pc = "home_json" /\ task[t].pc # "home_json")
            => task[t].pc = "devices_req" /\ task[t].requests = 2]_vars

\* the second fetch of a pool update() failed while the Registry held the
\* Devices of an earlier cycle
C36_Witness ==
    \E t \in Tasks :
        /\ IsPool
        /\ task[t].op = "update" /\ task[t].pc = "done"
        /\ task[t].requests = 2
        /\ task[t].result = ServiceException
        /\ last_refresh > 0
        /\ DOMAIN devices # {}

\* the Registry after the step is the Registry before it with the whole of the
\* flattened section merged: every name of the section is there with the
\* section's attributes, and no other name was added
WholeSectionMerged(flat) ==
    /\ DOMAIN devices' = (DOMAIN devices) \cup (DOMAIN flat)
    /\ HoldsSection(devices', flat)
    /\ KeepsAndMerges(flat)

\* C37: on the event loop, every step that changes the Registry, a Device,
\* temp_unit or has_spa is the parse of one section by one task and leaves the
\* whole section merged (with temp_unit and has_spa set, for a home screen), so
\* no task is resumed on a section half merged; and the home parse of update()
\* suspends before the devices parse with online and last_refresh as they were.
C37_SectionMergedInOneStep ==
    [][/\ << devices, created, temp_unit, has_spa >>' # << devices, created, temp_unit, has_spa >>
          => \E t \in Tasks :
                LET p == task'[t].data
                IN  \/ /\ ParsesHome(t) /\ ~IsOffline(p)
                       /\ WholeSectionMerged(HomeFlat(p.entries))
                       /\ temp_unit' = p.temp_scale
                       /\ has_spa' = IF "spa_set_point" \in NamesOf(p.entries)
                                     THEN "True" ELSE "False"
                    \/ /\ ParsesDevices(t) /\ ~IsOffline(p)
                       /\ WholeSectionMerged(DevicesFlat(p.entries))
                       /\ UNCHANGED << temp_unit, has_spa >>
       /\ \A t \in Tasks :
             (task[t].pc = "home_json" /\ task'[t].pc = "devices_json")
             => UNCHANGED << online, last_refresh >>]_vars

\* while one task stands between its home parse and its devices parse, the
\* other has been handed the Registry by get_devices(): the home section is in
\* it, the devices section is not, and online and last_refresh are as the
\* constructor left them
C37_Witness ==
    \E t \in Tasks, o \in Tasks :
        /\ t # o
        /\ task[t].op = "update" /\ task[t].pc = "devices_json"
        /\ task[o].op = "get_devices" /\ task[o].pc = "done" /\ task[o].requests = 0
        /\ DOMAIN devices = {"spa_set_point"}
        /\ has_spa = "True"
        /\ online = "None" /\ last_refresh = 0

\* a step in which the caller t invokes get_devices()
CallsGetDevices(t) ==
    /\ Ready(t)
    /\ task'[t] # task[t]
    /\ task'[t].op = "get_devices"

\* C38: get_devices() called on a Registry that is not empty returns at once,
\* with no request sent and nothing changed; called on an empty Registry it runs
\* update(), which sends its first request when MIN_SECS_TO_REFRESH seconds have
\* passed since last_refresh and otherwise returns the empty Registry with no
\* request sent.
C38_GetDevicesFetchesOnlyWhenEmpty ==
    [][\A t \in Tasks :
         CallsGetDevices(t) =>
            /\ UNCHANGED ctrl
            /\ IF DOMAIN devices # {} \/ IntTime - last_refresh < MIN_SECS_TO_REFRESH
               THEN /\ task'[t].pc = "done" /\ task'[t].result = "ok"
                    /\ task'[t].requests = 0
               ELSE /\ task'[t].pc \in {"home_req", "shadow_req"}
                    /\ task'[t].requests = 1]_vars

\* get_devices() returned an empty Registry inside the throttle interval
C38_Witness ==
    \E t \in Tasks :
        /\ task[t].op = "get_devices" /\ task[t].pc = "done" /\ task[t].result = "ok"
        /\ task[t].requests = 0
        /\ devices = EmptyMap
        /\ last_refresh > 0
        /\ IntTime - last_refresh < MIN_SECS_TO_REFRESH

\* merging u into tree d a second time, with the same metadata and in the same
\* order of items, leaves the tree the first merge left
MergedTwiceIsOnce(d, u, metadata, order) ==
    LET once == Shadow_update(d, u, None, metadata, order).tree
    IN  Shadow_update(once, u, None, metadata, order).tree = once

\* C39: for every tree the mirror can hold and every document, with or without
\* metadata, a second merge of the document changes nothing the first merge
\* left: not the shape of the tree, not a leaf's value, version or metadata.
C39_MergeIsIdempotent ==
    \A d \in {reported, desired} : \A u \in UpdateDocs \cup DeltaDocs : \A o \in KeyOrders :
        /\ MergedTwiceIsOnce(d, u, None, o)
        /\ MergedTwiceIsOnce(d, u, Timestamps(u), o)

\* the mirror holds a leaf with metadata and a subtree, and a document without
\* metadata that rewrites both merges into it without raising
C39_Witness ==
    /\ DOMAIN reported = {"a", "b"}
    /\ IsLeaf(reported["b"]) /\ reported["b"]["metadata"] = Scalar("t1")
    /\ IsContainer(reported["a"]) /\ DOMAIN reported["a"] = {"a", "b"}
    /\ \E u \in UpdateDocs :
          LET r == Shadow_update(reported, u, None, None, <<"a", "b">>)
          IN  /\ DOMAIN u = {"a", "b"} /\ ~r.raised
              /\ r.tree # reported
              /\ MergedTwiceIsOnce(reported, u, None, <<"a", "b">>)

\* C40: the online of a shadow-document Controller becomes False only in a
\* step of the MQTT client's disconnect handler, on a Controller registered
\* with the client; no step of update(), whatever it fetched or parsed, and no
\* other step of a task makes it False, so that update() calls alone leave it
\* None or True.
C40_ShadowOfflineOnlyByDisconnect ==
    [][IsShadow =>
         /\ (online' = "False" /\ online # "False")
            => /\ mqtt = "idle" /\ mqtt' = "login"
               /\ Self \in MQTTSystems
               /\ task' = task
         /\ \A t \in Tasks :
               task'[t] # task[t] => (online' = online \/ online' \in {"None", "True"})
         /\ \A t \in Tasks : ParsesShadow(t) => task'[t].result = "ok" /\ online' = "True"]_vars

\* a shadow-document Controller that update() had refreshed was marked offline
\* by the disconnect handler
C40_Witness ==
    \E t \in Tasks :
        /\ IsShadow
        /\ task[t].op = "update" /\ task[t].pc = "done" /\ task[t].result = "ok"
        /\ task[t].requests >= 1
        /\ last_refresh > 0
        /\ online = "False"
        /\ mqtt = "login"

====
